---- MODULE Spec2Model ----
(***************************************************************************)
(* A model of the Dex MCP server's search core: the TTL cache              *)
(* (src/cache/timed_cache.rs), the full-text index                         *)
(* (src/search/full_text_index.rs), the search orchestrator                *)
(* (src/tools/search.rs), the discovery tools (src/tools/discovery.rs)     *)
(* and the service layer that drives them (src/services/*.rs).             *)
(*                                                                         *)
(* Text is modelled as a sequence of one-character strings, so that        *)
(* trimming, lower-casing, substring search and HTML stripping are         *)
(* computed character by character as the Rust code does.  Time is a       *)
(* logical clock counted in seconds (the unit of TimedCache::new).         *)
(***************************************************************************)
EXTENDS Integers, Sequences, FiniteSets, TLC

(***************************************************************************)
(* Bounds of the model (not program constants).                            *)
(***************************************************************************)
\* The clock runs from 0 to MaxTime.
MaxTime == 2
\* The time-to-live both caches are constructed with, in seconds.
Ttl == 2

(***************************************************************************)
(* Option values.                                                          *)
(***************************************************************************)
None == [some |-> FALSE]

Some(v) == [some |-> TRUE, val |-> v]

Min(a, b) == IF a < b THEN a ELSE b

Max(a, b) == IF a > b THEN a ELSE b

(***************************************************************************)
(* TimedCache<K, V>: a map from key to CacheEntry {value, inserted_at}.    *)
(* The map is a function whose domain is the set of stored keys.  Each     *)
(* operation takes the std RwLock for its whole body, so each is one       *)
(* atomic step.                                                            *)
(***************************************************************************)
\* Instant::duration_since saturates at zero.
DurationSince(t, earlier) == IF t >= earlier THEN t - earlier ELSE 0

\* Mutant of TCFresh: `<=` in place of `<`, an entry lives one tick too long.
TCFreshOffByOne(entry, t, ttl) == DurationSince(t, entry.inserted_at) <= ttl

\* now.duration_since(entry.inserted_at) < self.ttl
TCFresh(entry, t, ttl) == DurationSince(t, entry.inserted_at) < ttl

TCNew == << >>

\* Mutant of TCInsert: an existing entry is kept, the new one dropped.
TCInsertIfAbsent(c, k, v, t) ==
    IF k \in DOMAIN c THEN c
    ELSE [x \in (DOMAIN c) \cup {k} |->
             IF x = k THEN [value |-> v, inserted_at |-> t] ELSE c[x]]

\* Mutant of TCInsert: an overwrite keeps the old entry's timestamp.
TCInsertKeepingTimestamp(c, k, v, t) ==
    [x \in (DOMAIN c) \cup {k} |->
        IF x = k
        THEN [value |-> v, inserted_at |-> IF k \in DOMAIN c THEN c[k].inserted_at ELSE t]
        ELSE c[x]]

\* HashMap::insert of CacheEntry::new(value): a new entry replaces the old.
TCInsert(c, k, v, t) ==
    [x \in (DOMAIN c) \cup {k} |->
        IF x = k THEN [value |-> v, inserted_at |-> t] ELSE c[x]]

\* Mutant of TCGet: the entry's age is not looked at.
TCGetIgnoringTtl(c, k, t, ttl) ==
    IF k \in DOMAIN c THEN Some(c[k].value) ELSE None

TCGet(c, k, t, ttl) ==
    IF k \in DOMAIN c /\ TCFresh(c[k], t, ttl) THEN Some(c[k].value) ELSE None

TCContainsKey(c, k, t, ttl) == TCGet(c, k, t, ttl).some

\* Mutant of TCRemove: nothing is removed.
TCRemoveNothing(c, k) == c

TCRemove(c, k) == [x \in (DOMAIN c) \ {k} |-> c[x]]

TCClear(c) == << >>

\* Mutant of TCCleanupExpired: every entry is dropped.
TCCleanupEverything(c, t, ttl) == << >>

\* HashMap::retain(|_, entry| now.duration_since(entry.inserted_at) < self.ttl)
TCCleanupExpired(c, t, ttl) ==
    [x \in {y \in DOMAIN c : TCFresh(c[y], t, ttl)} |-> c[x]]

TCLen(c) == Cardinality(DOMAIN c)

TCIsEmpty(c) == TCLen(c) = 0

(***************************************************************************)
(* Text.  A string is a sequence of one-character strings; the model's     *)
(* alphabet is ASCII, so byte offsets and character offsets coincide.      *)
(***************************************************************************)
IsWhitespace(c) == c \in {" ", "\t", "\n"}

\* char::to_lowercase on the upper-case letters of the model's alphabet.
LowerChar(c) ==
    CASE c = "A" -> "a"
      [] c = "B" -> "b"
      [] c = "N" -> "n"
      [] c = "X" -> "x"
      [] OTHER -> c

to_lowercase(s) == [i \in 1..Len(s) |-> LowerChar(s[i])]

RECURSIVE trim_start(_)
trim_start(s) ==
    IF s = << >> \/ ~IsWhitespace(Head(s)) THEN s ELSE trim_start(Tail(s))

RECURSIVE trim_end(_)
trim_end(s) ==
    IF s = << >> \/ ~IsWhitespace(s[Len(s)]) THEN s
    ELSE trim_end(SubSeq(s, 1, Len(s) - 1))

trim(s) == trim_end(trim_start(s))

RECURSIVE SplitWs(_, _, _)
SplitWs(s, cur, acc) ==
    IF s = << >> THEN (IF cur = << >> THEN acc ELSE Append(acc, cur))
    ELSE IF IsWhitespace(Head(s))
         THEN SplitWs(Tail(s), << >>, IF cur = << >> THEN acc ELSE Append(acc, cur))
         ELSE SplitWs(Tail(s), Append(cur, Head(s)), acc)

\* str::split_whitespace, collected.
split_whitespace(s) == SplitWs(s, << >>, << >>)

RECURSIVE join(_, _)
join(words, sep) ==
    IF words = << >> THEN << >>
    ELSE IF Len(words) = 1 THEN words[1]
    ELSE words[1] \o sep \o join(Tail(words), sep)

\* str::contains
contains(hay, needle) ==
    \E i \in 1..(Len(hay) - Len(needle) + 1) :
        SubSeq(hay, i, i + Len(needle) - 1) = needle

\* str::find: the zero-based offset of the first occurrence.
find(hay, needle) ==
    IF contains(hay, needle)
    THEN Some((CHOOSE i \in 1..(Len(hay) - Len(needle) + 1) :
                 /\ SubSeq(hay, i, i + Len(needle) - 1) = needle
                 /\ \A j \in 1..(i - 1) : SubSeq(hay, j, j + Len(needle) - 1) # needle) - 1)
    ELSE None

\* Regex `<[^>]*>` replace_all by a space: leftmost, non-overlapping.
RECURSIVE ReplaceTags(_)
ReplaceTags(s) ==
    IF s = << >> THEN << >>
    ELSE IF Head(s) = "<" /\ \E j \in 2..Len(s) : s[j] = ">"
         THEN LET j == CHOOSE k \in 2..Len(s) :
                          s[k] = ">" /\ \A m \in 2..(k - 1) : s[m] # ">"
              IN  <<" ">> \o ReplaceTags(SubSeq(s, j + 1, Len(s)))
         ELSE <<Head(s)>> \o ReplaceTags(Tail(s))

strip_html(html) == join(split_whitespace(ReplaceTags(html)), <<" ">>)

\* One row of the Levenshtein matrix from the row above it.
RECURSIVE LevRow(_, _, _, _)
LevRow(prev, c1, s2, row) ==
    IF Len(row) = Len(s2) + 1 THEN row
    ELSE LET j == Len(row)
             cost == IF c1 = s2[j] THEN 0 ELSE 1
         IN  LevRow(prev, c1, s2,
                    Append(row, Min(Min(prev[j + 1] + 1, row[j] + 1), prev[j] + cost)))

RECURSIVE LevRows(_, _, _, _)
LevRows(s1, s2, i, prev) ==
    IF i > Len(s1) THEN prev[Len(s2) + 1]
    ELSE LevRows(s1, s2, i + 1, LevRow(prev, s1[i], s2, <<i>>))

levenshtein_distance(s1, s2) ==
    IF Len(s1) = 0 THEN Len(s2)
    ELSE IF Len(s2) = 0 THEN Len(s1)
    ELSE LevRows(s1, s2, 1, [j \in 1..(Len(s2) + 1) |-> j - 1])

(***************************************************************************)
(* FullTextSearchIndex.  A document is                                     *)
(* [contact_id, contact_name, field_type, content, item_id]; the index is  *)
(* its Vec of documents.                                                   *)
(***************************************************************************)
MAX_SNIPPET_LENGTH == 150

CONTEXT_CHARS == 50

\* Mutant of Doc: the document does not carry its contact's id.
DocOfNobody(contact, field, content, item) ==
    [contact_id |-> << >>, contact_name |-> contact.name,
     field_type |-> field, content |-> content, item_id |-> item]

Doc(contact, field, content, item) ==
    [contact_id |-> contact.id, contact_name |-> contact.name,
     field_type |-> field, content |-> content, item_id |-> item]

OptionDocs(contact, field, opt) ==
    IF opt.some THEN <<Doc(contact, field, opt.val, None)>> ELSE << >>

\* Mutant of VecDocs: only the first entry is indexed.
VecDocsFirstOnly(contact, field, vec) ==
    [i \in 1..Min(Len(vec), 1) |-> Doc(contact, field, vec[i], None)]

VecDocs(contact, field, vec) ==
    [i \in 1..Len(vec) |-> Doc(contact, field, vec[i], None)]

RECURSIVE NoteDocs(_, _)
NoteDocs(contact, notes) ==
    IF notes = << >> THEN << >>
    ELSE LET plain_text == strip_html(Head(notes).content)
         IN  (IF trim(plain_text) # << >>
              THEN <<Doc(contact, "Note", plain_text, Some(Head(notes).id))>>
              ELSE << >>) \o NoteDocs(contact, Tail(notes))

RECURSIVE ReminderDocs(_, _)
ReminderDocs(contact, reminders) ==
    IF reminders = << >> THEN << >>
    ELSE (IF trim(Head(reminders).text) # << >>
          THEN <<Doc(contact, "Reminder", Head(reminders).text,
                     Some(Head(reminders).id))>>
          ELSE << >>) \o ReminderDocs(contact, Tail(reminders))

\* Mutant of index_contact: a contact whose notes list is empty loses its
\* reminders too.
index_contact_drop_reminders(documents, contact, notes, reminders) ==
    documents
        \o <<Doc(contact, "Name", contact.name, None)>>
        \o OptionDocs(contact, "Email", contact.email)
        \o VecDocs(contact, "Email", contact.emails)
        \o OptionDocs(contact, "Phone", contact.phone)
        \o VecDocs(contact, "Phone", contact.phones)
        \o OptionDocs(contact, "Company", contact.company)
        \o OptionDocs(contact, "JobTitle", contact.title)
        \o NoteDocs(contact, notes)
        \o (IF notes = << >> THEN << >> ELSE ReminderDocs(contact, reminders))

\* index_contact appends to self.documents.
index_contact(documents, contact, notes, reminders) ==
    documents
        \o <<Doc(contact, "Name", contact.name, None)>>
        \o OptionDocs(contact, "Email", contact.email)
        \o VecDocs(contact, "Email", contact.emails)
        \o OptionDocs(contact, "Phone", contact.phone)
        \o VecDocs(contact, "Phone", contact.phones)
        \o OptionDocs(contact, "Company", contact.company)
        \o OptionDocs(contact, "JobTitle", contact.title)
        \o NoteDocs(contact, notes)
        \o ReminderDocs(contact, reminders)

document_count(documents) == Len(documents)

\* The best score of one query word over the content words; the loop breaks
\* at the first content word that contains the query word.
RECURSIVE BestWordScore(_, _, _)
BestWordScore(query_word, content_words, best) ==
    IF content_words = << >> THEN best
    ELSE LET content_word == Head(content_words)
             distance == levenshtein_distance(query_word, content_word)
             max_len == Max(Len(query_word), Len(content_word))
         IN  IF contains(content_word, query_word) THEN 85
             ELSE IF max_len > 0 /\ 10 * distance <= 4 * max_len
                  \* (similarity * 75.0) as u8, in exact arithmetic
                  THEN BestWordScore(query_word, Tail(content_words),
                                     Max(best, (75 * (max_len - distance)) \div max_len))
                  ELSE BestWordScore(query_word, Tail(content_words), best)

RECURSIVE WordScores(_, _)
WordScores(query_words, content_words) ==
    IF query_words = << >> THEN << >>
    ELSE <<BestWordScore(Head(query_words), content_words, 0)>>
            \o WordScores(Tail(query_words), content_words)

RECURSIVE SumSeq(_)
SumSeq(xs) == IF xs = << >> THEN 0 ELSE Head(xs) + SumSeq(Tail(xs))

\* Mutant of ScoreConfidence: the sum is divided by the number of scoring
\* words.
ScoreConfidenceOverMatches(query_words, scores) ==
    LET total_score == SumSeq(scores)
        matches == Cardinality({i \in 1..Len(scores) : scores[i] > 0})
    IN  IF matches >= (Len(query_words) + 1) \div 2
        THEN Some(Min(total_score \div Max(matches, 1), 90))
        ELSE None

\* The tail of calculate_match_confidence, from `scores` on.
ScoreConfidence(query_words, scores) ==
    LET total_score == SumSeq(scores)
        matches == Cardinality({i \in 1..Len(scores) : scores[i] > 0})
    IN  IF matches >= (Len(query_words) + 1) \div 2
        THEN Some(Min(total_score \div Len(query_words), 90))
        ELSE None

\* calculate_match_confidence once the words are split: word-by-word fuzzy
\* matching.
WordConfidence(query_words, content_words) ==
    IF query_words = << >> \/ content_words = << >> THEN None
    ELSE ScoreConfidence(query_words, WordScores(query_words, content_words))

\* Option<u8>; the float expressions are computed in exact arithmetic and
\* truncated as `as u8` truncates.
calculate_match_confidence(query, content) ==
    IF query = << >> \/ content = << >> THEN None
    ELSE IF contains(content, query)
    THEN Some(Min((85 * Len(query) + 10 * Len(content)) \div Len(content), 95))
    ELSE WordConfidence(split_whitespace(query), split_whitespace(content))

\* The offset of the first content word that contains first_word, counted as
\* the code counts it: the lengths of the words before it, plus one each.
RECURSIVE WordOffset(_, _, _)
WordOffset(words, first_word, acc) ==
    IF words = << >> THEN 0
    ELSE IF contains(Head(words), first_word) THEN acc
    ELSE WordOffset(Tail(words), first_word, acc + Len(Head(words)) + 1)

\* query.split_whitespace().next().unwrap_or(query)
FirstWord(query_words, query) == IF query_words = << >> THEN query ELSE query_words[1]

\* generate_snippet: `pos`, the offset the snippet is centred on.
SnippetPos(content_lower, query) ==
    LET hit == find(content_lower, query)
    IN  IF hit.some THEN hit.val
        ELSE WordOffset(split_whitespace(content_lower),
                        FirstWord(split_whitespace(query), query), 0)

Ellipsis == <<".", ".", ".">>

\* generate_snippet: the cut from start to end, with its ellipses, shortened
\* to MAX_SNIPPET_LENGTH.
SnippetCut(original, start, end) ==
    (IF start > 0 THEN Ellipsis ELSE << >>)
        \o SubSeq(original, start + 1, end)
        \o (IF end < Len(original) THEN Ellipsis ELSE << >>)

SnippetShorten(snippet) ==
    IF Len(snippet) > MAX_SNIPPET_LENGTH
    THEN SubSeq(snippet, 1, MAX_SNIPPET_LENGTH - 3) \o Ellipsis
    ELSE snippet

SnippetAround(original, query, pos) ==
    SnippetShorten(
        SnippetCut(original,
                   IF pos > CONTEXT_CHARS THEN pos - CONTEXT_CHARS ELSE 0,
                   Min(pos + Len(query) + CONTEXT_CHARS, Len(original))))

generate_snippet(original, content_lower, query) ==
    SnippetAround(original, query, SnippetPos(content_lower, query))

\* find_match from `confidence` on: Option<MatchContext>.
MatchContext(doc, content_lower, query_lower, confidence) ==
    IF ~confidence.some THEN None
    ELSE Some([field_type |-> doc.field_type,
               snippet |-> generate_snippet(doc.content, content_lower, query_lower),
               confidence |-> confidence.val,
               item_id |-> doc.item_id])

\* find_match from `content_lower` on.
FindMatchLower(doc, content_lower, query_lower) ==
    MatchContext(doc, content_lower, query_lower,
                 calculate_match_confidence(query_lower, content_lower))

find_match(doc, query_lower) ==
    FindMatchLower(doc, to_lowercase(doc.content), query_lower)

\* The filter with its comparison turned round.
QualifyingBelow(m, min_confidence) ==
    IF m.some /\ m.val.confidence <= min_confidence THEN <<m.val>> ELSE << >>

\* if match_context.confidence >= min_confidence { push }
Qualifying(m, min_confidence) ==
    IF m.some /\ m.val.confidence >= min_confidence THEN <<m.val>> ELSE << >>

\* matches_by_contact[contact_id]: the qualifying matches of one contact, in
\* document order.
RECURSIVE MatchesOf(_, _, _, _)
MatchesOf(documents, contact_id, query_lower, min_confidence) ==
    IF documents = << >> THEN << >>
    ELSE Qualifying(IF Head(documents).contact_id = contact_id
                    THEN find_match(Head(documents), query_lower)
                    ELSE None,
                    min_confidence)
            \o MatchesOf(Tail(documents), contact_id, query_lower, min_confidence)

MaxConfidence(matches) ==
    IF matches = << >> THEN 0
    ELSE CHOOSE c \in {matches[i].confidence : i \in 1..Len(matches)} :
            \A i \in 1..Len(matches) : matches[i].confidence <= c

\* The boost without its ceiling of 15.
OverallConfidenceUnbounded(matches) ==
    Min((MaxConfidence(matches) + (Len(matches) - 1) * 5) % 256, 100)

\* (max_confidence + min((matches.len() - 1) * 5, 15)).min(100); the sum is
\* a u8 addition.
OverallConfidence(matches) ==
    Min((MaxConfidence(matches) + Min((Len(matches) - 1) * 5, 15)) % 256, 100)

\* Mutant of FindById: an id that is not in the list finds the first contact.
FindByIdOrFirst(contacts, id) ==
    IF contacts = << >> THEN None
    ELSE IF \E i \in 1..Len(contacts) : contacts[i].id = id
    THEN Some(contacts[CHOOSE i \in 1..Len(contacts) : contacts[i].id = id])
    ELSE Some(contacts[1])

\* self.contacts.iter().find(|c| c.id == contact_id)
FindById(contacts, id) ==
    IF \E i \in 1..Len(contacts) : contacts[i].id = id
    THEN Some(contacts[CHOOSE i \in 1..Len(contacts) :
                          /\ contacts[i].id = id
                          /\ \A j \in 1..(i - 1) : contacts[j].id # id])
    ELSE None

\* The SearchResults pushed by the loop over matches_by_contact, as a set:
\* the loop runs in the HashMap's iteration order, which is arbitrary.
SearchResultSet(documents, contacts, query, min_confidence) ==
    LET by_contact ==
            {<<id, MatchesOf(documents, id, to_lowercase(query), min_confidence)>> :
                id \in {documents[i].contact_id : i \in 1..Len(documents)}}
    IN  {[contact |-> FindById(contacts, e[1]).val, matches |-> e[2],
          confidence |-> OverallConfidence(e[2])] :
            e \in {m \in by_contact : /\ m[2] # << >>
                                      /\ FindById(contacts, m[1]).some
                                      /\ OverallConfidence(m[2]) >= min_confidence}}

\* The orders the stable sort by descending confidence can leave the results
\* in, each truncated to max_results.
SortedVecs(rs, max_results) ==
    {SubSeq(s, 1, Min(Cardinality(rs), max_results)) :
        s \in {t \in [1..Cardinality(rs) -> rs] :
                 /\ \A i, j \in 1..Cardinality(rs) : i # j => t[i] # t[j]
                 /\ \A i \in 1..(Cardinality(rs) - 1) :
                        t[i].confidence >= t[i + 1].confidence}}

\* Every Vec that search can return.
search(documents, contacts, query, max_results, min_confidence) ==
    SortedVecs(SearchResultSet(documents, contacts, query, min_confidence), max_results)

Digits == <<"0", "1", "2", "3", "4", "5", "6", "7", "8", "9">>

(***************************************************************************)
(* ContactMatcher (src/matching/fuzzy_matcher.rs).  A query is             *)
(* [name, email, phone, company, social_url], each an Option.              *)
(***************************************************************************)
\* The model's alphabet in ASCII order; str::cmp compares byte by byte.
Alphabet ==
    <<"\t", "\n", " ", "-", ".", "/", "0", "1", "2", "3", "4", "5", "6", "7",
      "8", "9", ":", "<", ">", "@", "A", "B", "N", "X", "a", "b", "c", "d",
      "h", "m", "n", "o", "p", "r", "s", "t", "w", "x">>

CharCode(c) == CHOOSE i \in 1..Len(Alphabet) : Alphabet[i] = c

\* Ordering of str: -1, 0 or 1.
RECURSIVE StrCmp(_, _)
StrCmp(a, b) ==
    IF a = << >> THEN (IF b = << >> THEN 0 ELSE -1)
    ELSE IF b = << >> THEN 1
    ELSE IF CharCode(Head(a)) < CharCode(Head(b)) THEN -1
    ELSE IF CharCode(Head(a)) > CharCode(Head(b)) THEN 1
    ELSE StrCmp(Tail(a), Tail(b))

starts_with(s, prefix) ==
    Len(s) >= Len(prefix) /\ SubSeq(s, 1, Len(prefix)) = prefix

\* str::trim_start_matches(prefix): strips the prefix as often as it repeats.
RECURSIVE trim_start_matches(_, _)
trim_start_matches(s, prefix) ==
    IF prefix # << >> /\ starts_with(s, prefix)
    THEN trim_start_matches(SubSeq(s, Len(prefix) + 1, Len(s)), prefix)
    ELSE s

\* str::trim_end_matches(char)
RECURSIVE trim_end_matches(_, _)
trim_end_matches(s, c) ==
    IF s # << >> /\ s[Len(s)] = c
    THEN trim_end_matches(SubSeq(s, 1, Len(s) - 1), c)
    ELSE s

normalize_email(email) == to_lowercase(trim(email))

normalize_phone(phone) ==
    LET digits == SelectSeq(phone, LAMBDA c : \E d \in 1..10 : Digits[d] = c)
    IN  IF Len(digits) > 10 THEN SubSeq(digits, Len(digits) - 9, Len(digits))
        ELSE digits

normalize_url(url) ==
    trim_end_matches(
        trim_start_matches(
            trim_start_matches(
                trim_start_matches(to_lowercase(trim(url)),
                                   <<"h", "t", "t", "p", "s", ":", "/", "/">>),
                <<"h", "t", "t", "p", ":", "/", "/">>),
            <<"w", "w", "w", ".">>),
        "/")

normalize_name(name) == join(split_whitespace(to_lowercase(trim(name))), <<" ">>)

\* u8; the float expressions are computed in exact arithmetic and truncated
\* as `as u8` truncates.
calculate_fuzzy_score(query, target) ==
    IF query = << >> \/ target = << >> THEN 0
    ELSE IF query = target THEN 95
    ELSE IF contains(target, query)
         THEN (85 * Len(query) + 10 * Len(target)) \div Len(target)
    ELSE IF contains(query, target) THEN 85
    ELSE LET distance == levenshtein_distance(query, target)
             max_len == Max(Len(query), Len(target))
         IN  IF 2 * distance > max_len THEN 0
             ELSE (85 * (max_len - distance)) \div max_len

\* match_email comparing the addresses as they are spelled.
match_email_as_spelled(query_email, contact) ==
    IF \/ contact.email.some /\ contact.email.val = query_email
       \/ \E i \in 1..Len(contact.emails) : contact.emails[i] = query_email
    THEN Some(100)
    ELSE None

match_email(query_email, contact) ==
    LET normalized_query == normalize_email(query_email)
    IN  IF contact.email.some /\ normalize_email(contact.email.val) = normalized_query
        THEN Some(100)
        ELSE IF \E i \in 1..Len(contact.emails) :
                    normalize_email(contact.emails[i]) = normalized_query
             THEN Some(100)
             ELSE None

match_phone(query_phone, contact) ==
    LET normalized_query == normalize_phone(query_phone)
    IN  IF contact.phone.some /\ normalize_phone(contact.phone.val) = normalized_query
        THEN Some(100)
        ELSE IF \E i \in 1..Len(contact.phones) :
                    normalize_phone(contact.phones[i]) = normalized_query
             THEN Some(100)
             ELSE None

match_social_url(query_url, contact) ==
    IF \E i \in 1..Len(contact.social_profiles) :
          normalize_url(contact.social_profiles[i].url) = normalize_url(query_url)
    THEN Some(100)
    ELSE None

\* if score > threshold { Some(score) } else { None }
ScoreAbove(score, threshold) == IF score > threshold THEN Some(score) ELSE None

fuzzy_match_name(query, contact_name) ==
    ScoreAbove(calculate_fuzzy_score(normalize_name(query), normalize_name(contact_name)),
               0)

fuzzy_match_company(query, company) ==
    ScoreAbove(calculate_fuzzy_score(normalize_name(query), normalize_name(company)),
               50)

MatchResult(contact, confidence, match_type) ==
    [contact |-> contact, confidence |-> confidence, match_type |-> match_type]

\* The boost without `.min(95)`.
BoostedUncapped(query, contact, confidence) ==
    IF /\ query.company.some
       /\ contact.company.some
       /\ fuzzy_match_company(query.company.val, contact.company.val).some
    THEN (confidence + 15) % 256
    ELSE confidence

\* Boost confidence if company also matches.
Boosted(query, contact, confidence) ==
    IF /\ query.company.some
       /\ contact.company.some
       /\ fuzzy_match_company(query.company.val, contact.company.val).some
    THEN Min((confidence + 15) % 256, 95)
    ELSE confidence

\* if confidence >= min_confidence { push }
FuzzyResult(contact, confidence, min_confidence) ==
    IF confidence >= min_confidence
    THEN <<MatchResult(contact, confidence, "FuzzyName")>>
    ELSE << >>

\* The fuzzy name branch, from the result of fuzzy_match_name on.
NameResult(query, contact, name_match, min_confidence) ==
    IF name_match.some
    THEN FuzzyResult(contact, Boosted(query, contact, name_match.val), min_confidence)
    ELSE << >>

\* The body of the loop over contacts without its `continue`s: every rule
\* that hits pushes.
MatchContactFallthrough(query, contact, min_confidence) ==
    (IF query.email.some /\ match_email(query.email.val, contact).some
     THEN <<MatchResult(contact, 100, "ExactEmail")>> ELSE << >>)
    \o (IF query.phone.some /\ match_phone(query.phone.val, contact).some
        THEN <<MatchResult(contact, 100, "ExactPhone")>> ELSE << >>)
    \o (IF query.social_url.some /\ match_social_url(query.social_url.val, contact).some
        THEN <<MatchResult(contact, 100, "ExactSocial")>> ELSE << >>)
    \o (IF query.name.some
        THEN NameResult(query, contact, fuzzy_match_name(query.name.val, contact.name),
                        min_confidence)
        ELSE << >>)

\* The body of the loop over contacts: the results this contact pushes.
MatchContact(query, contact, min_confidence) ==
    IF query.email.some /\ match_email(query.email.val, contact).some
    THEN <<MatchResult(contact, 100, "ExactEmail")>>
    ELSE IF query.phone.some /\ match_phone(query.phone.val, contact).some
    THEN <<MatchResult(contact, 100, "ExactPhone")>>
    ELSE IF query.social_url.some /\ match_social_url(query.social_url.val, contact).some
    THEN <<MatchResult(contact, 100, "ExactSocial")>>
    ELSE IF query.name.some
    THEN NameResult(query, contact, fuzzy_match_name(query.name.val, contact.name),
                    min_confidence)
    ELSE << >>

\* The comparison without its tie-break on the name.
MatchBeforeByConfidence(a, b) == a.confidence > b.confidence

\* b.confidence.cmp(&a.confidence).then_with(|| a.contact.name.cmp(&b.contact.name))
MatchBefore(a, b) ==
    \/ a.confidence > b.confidence
    \/ a.confidence = b.confidence /\ StrCmp(a.contact.name, b.contact.name) < 0

\* Vec::sort_by is stable: x goes after every element that is not after it.
RECURSIVE InsertSorted(_, _)
InsertSorted(sorted, x) ==
    IF sorted = << >> THEN <<x>>
    ELSE IF MatchBefore(x, Head(sorted)) THEN <<x>> \o sorted
    ELSE <<Head(sorted)>> \o InsertSorted(Tail(sorted), x)

RECURSIVE SortMatches(_, _)
SortMatches(results, sorted) ==
    IF results = << >> THEN sorted
    ELSE SortMatches(Tail(results), InsertSorted(sorted, Head(results)))

\* The concatenation of a sequence of Vecs, by halves.
RECURSIVE Concat(_)
Concat(vecs) ==
    IF vecs = << >> THEN << >>
    ELSE IF Len(vecs) = 1 THEN vecs[1]
    ELSE Concat(SubSeq(vecs, 1, Len(vecs) \div 2))
            \o Concat(SubSeq(vecs, Len(vecs) \div 2 + 1, Len(vecs)))

\* for contact in contacts { .. }: what the contacts push, in the order of
\* `contacts`.
MatchAll(query, contacts, min_confidence) ==
    Concat([i \in 1..Len(contacts) |-> MatchContact(query, contacts[i], min_confidence)])

\* Vec::truncate
truncate(results, len) == SubSeq(results, 1, Min(Len(results), len))

find_matches(query, contacts, max_results, min_confidence) ==
    truncate(SortMatches(MatchAll(query, contacts, min_confidence), << >>), max_results)

(***************************************************************************)
(* Validation helpers of the service layer: Ok, or the InvalidRequest      *)
(* message.                                                                *)
(***************************************************************************)
Valid == [ok |-> TRUE]

Invalid(msg) == [ok |-> FALSE, error |-> msg]

\* Mutant of validate_search_query: the emptiness test without the trim.
validate_search_query_untrimmed(query) ==
    IF query = << >> THEN Invalid("Search query cannot be empty")
    ELSE IF Len(query) > 500 THEN Invalid("Search query too long (max 500 characters)")
    ELSE Valid

\* ContactServiceImpl::validate_search_query
validate_search_query(query) ==
    IF trim(query) = << >> THEN Invalid("Search query cannot be empty")
    ELSE IF Len(query) > 500 THEN Invalid("Search query too long (max 500 characters)")
    ELSE Valid

\* ContactServiceImpl::validate_email
validate_email(email) ==
    IF ~contains(email, <<"@">>) \/ Len(email) < 3 THEN Invalid("Invalid email format")
    ELSE Valid

\* validate_contact_id (the same in the three services)
validate_contact_id(contact_id) ==
    IF trim(contact_id) = << >> THEN Invalid("Contact ID cannot be empty")
    ELSE IF Len(contact_id) > 100 THEN Invalid("Contact ID too long")
    ELSE Valid

\* NoteServiceImpl::validate_note_content
validate_note_content(content) ==
    IF trim(content) = << >> THEN Invalid("Note content cannot be empty")
    ELSE IF Len(content) > 10000
         THEN Invalid("Note content too long (max 10000 characters)")
    ELSE Valid

\* ReminderServiceImpl::validate_reminder_text
validate_reminder_text(text) ==
    IF trim(text) = << >> THEN Invalid("Reminder text cannot be empty")
    ELSE IF Len(text) > 500 THEN Invalid("Reminder text too long (max 500 characters)")
    ELSE Valid

\* ReminderServiceImpl::validate_date_format
validate_date_format(date) ==
    IF Len(date) < 10 THEN Invalid("Invalid date format (expected ISO 8601)")
    ELSE Valid

(***************************************************************************)
(* The remote data source behind the repositories.  It is external to the  *)
(* program: the model gives it the contract of spec section 6 (a page is   *)
(* the `limit` records after the first `offset`), and lets any request     *)
(* fail.                                                                   *)
(***************************************************************************)
Contact(id, name) ==
    [id |-> id, name |-> name, email |-> None, emails |-> << >>,
     phone |-> None, phones |-> << >>, company |-> None, title |-> None,
     social_profiles |-> << >>]

RECURSIVE Decimal(_)
Decimal(n) ==
    IF n < 10 THEN <<Digits[n + 1]>>
    ELSE Decimal(n \div 10) \o <<Digits[(n % 10) + 1]>>

Id1 == <<"c", "1">>

Id2 == <<"c", "2">>

\* ContactRepository::list(limit, offset)
RepoList(db, limit, offset) == SubSeq(db, offset + 1, Min(offset + limit, Len(db)))

\* ContactRepository::get(id)
RepoGet(db, id) ==
    IF \E i \in 1..Len(db) : db[i].id = id
    THEN Some(db[CHOOSE i \in 1..Len(db) : db[i].id = id])
    ELSE None

\* ContactRepository::update(id, contact)
RepoUpdate(db, id, contact) ==
    [i \in 1..Len(db) |-> IF db[i].id = id THEN contact ELSE db[i]]

\* NoteRepository::get_for_contact / ReminderRepository::get_for_contact
RepoForContact(db, contact_id, limit, offset) ==
    IF contact_id \in DOMAIN db
    THEN SubSeq(db[contact_id], offset + 1, Min(offset + limit, Len(db[contact_id])))
    ELSE << >>

(***************************************************************************)
(* State.                                                                  *)
(***************************************************************************)
VARIABLES
    now,          \* the clock (Instant::now), in seconds
    contactsDb,   \* remote: the contacts, in listing order
    notesDb,      \* remote: contact id -> its notes
    remindersDb,  \* remote: contact id -> its reminders
    searchCache,  \* SearchTools.cache: the TimedCache map
    discCache,    \* ContactDiscoveryTools.contact_cache: the TimedCache map
    discLock,     \* the tokio RwLock around ContactDiscoveryTools: its writer
    pc,           \* per caller: where its current call is suspended
    loc,          \* per caller: the locals of its current call
    last,         \* the call that returned last, and what it returned
    ops,          \* calls that may still be started
    fails,        \* remote requests that may still fail
    hist,         \* history: what the claims need to remember of the past
    fan,          \* SpecFanout: the stages of one build's fan-out
    tc,           \* SpecCache: the map of a TimedCache under test
    tcLast,       \* SpecCache: the last operation, what it returned or dropped
    call,         \* the pure-function specifications: one application
    threads       \* SpecThreads: the RwLock of `tc` and the threads using it

cacheVars == <<tc, tcLast>>

remoteVars == <<contactsDb, notesDb, remindersDb>>

mainVars ==
    <<contactsDb, notesDb, remindersDb, searchCache, discCache, discLock,
      pc, loc, last, ops, fails, hist>>

vars ==
    <<now, contactsDb, notesDb, remindersDb, searchCache, discCache, discLock,
      pc, loc, last, ops, fails, hist, fan, tc, tcLast, call, threads>>

(***************************************************************************)
(* The callers and the inputs they draw from.                              *)
(***************************************************************************)
Procs == {"p1", "p2"}

\* The calls started in one behaviour, and the remote requests that fail in it.
MaxOps == 3

MaxFails == 1

SEARCH_KEY == "search_data"

DISCOVERY_KEY == "all_contacts"

PAGE_SIZE == 100

BUFFER_UNORDERED == 20

DEFAULT_MAX_RESULTS == 10

DEFAULT_MIN_CONFIDENCE == 50

QueryX == <<"x">>

Blank == <<" ">>

\* A query that matches no document of the model, and one of 501 characters.
QueryNone == <<"q">>

QueryLong == [i \in 1..501 |-> "x"]

SearchInputs ==
    {[query |-> QueryX, max_results |-> None, min_confidence |-> None],
     [query |-> Blank, max_results |-> None, min_confidence |-> None],
     [query |-> QueryNone, max_results |-> None, min_confidence |-> None],
     [query |-> QueryLong, max_results |-> None, min_confidence |-> None]}

HtmlX == <<"<", "p", ">", "X", "<", "/", "p", ">">>

\* The remote's data when the server starts.
InitContacts == <<Contact(Id1, <<"A", "n", "n">>)>>

InitNotes ==
    [id \in {Id1} |-> <<[id |-> <<"n", "1">>, contact_id |-> id, content |-> HtmlX]>>]

InitReminders ==
    [id \in {Id1} |-> <<[id |-> <<"r", "1">>, contact_id |-> id, text |-> <<"x">>]>>]

Idle == [op |-> "none"]

NoCall == [proc |-> "none", op |-> "none", ok |-> TRUE]

ApiError(p, op) == [proc |-> p, op |-> op, ok |-> FALSE, error |-> "ApiError"]

InvalidRequest(p, op, msg) ==
    [proc |-> p, op |-> op, ok |-> FALSE, error |-> "InvalidRequest", message |-> msg]

StartCall(p) ==
    /\ pc[p] = "idle"
    /\ ops > 0
    /\ ops' = ops - 1

(***************************************************************************)
(* SearchTools.  The tokio RwLock around the cache is held only for the    *)
(* get, the insert or the remove, none of which suspends, so each of those *)
(* critical sections is one atomic step.  The steps of search_full_text    *)
(* are cut at its suspension points: each repository request.              *)
(***************************************************************************)
Pending == [state |-> "pending"]

Ok(v) == [state |-> "ok", val |-> v]

Err == [state |-> "err"]

\* Result::unwrap_or_else(|e| { warn; Vec::new() })
unwrap_or_empty(r) == IF r.state = "ok" THEN r.val ELSE << >>

\* Mutant of IsLastPage: a full page ends the loop too.
IsLastPageOrFull(count) == count <= PAGE_SIZE

\* if count < PAGE_SIZE { break; }
IsLastPage(count) == count < PAGE_SIZE

\* Mutant of FanRoom: the window admits one future more.
FanRoomOffByOne(in_flight) == BUFFER_UNORDERED + 1 - in_flight

\* buffer_unordered(20): the futures the stream may still pull.
FanRoom(in_flight) == BUFFER_UNORDERED - in_flight

\* Pull futures from the stream while there is room.  A pulled future issues
\* its notes and its reminders request together (tokio::join!).
FillWindow(contacts, next, in_progress) ==
    LET room == FanRoom(Cardinality(DOMAIN in_progress))
        k == Max(0, Min(room, Len(contacts) - next + 1))
    IN  [next |-> next + k,
         pulled |-> k,
         in_progress |->
            [i \in (DOMAIN in_progress) \cup (next..(next + k - 1)) |->
                IF i \in DOMAIN in_progress THEN in_progress[i]
                ELSE [notes |-> Pending, reminders |-> Pending]]]

\* for (contact, notes, reminders) in results { index.index_contact(..) }
RECURSIVE BuildIndex(_, _)
BuildIndex(documents, results) ==
    IF results = << >> THEN documents
    ELSE BuildIndex(index_contact(documents, Head(results).contact,
                                  Head(results).notes, Head(results).reminders),
                    Tail(results))

\* The call's state once the stream has `in_progress` in flight and `results`
\* collected: still fanning out, or (stream exhausted, nothing in flight) the
\* index built and the call waiting for the cache's write lock.  `issued`
\* counts the notes and reminders requests sent, `failed` the ones that
\* failed.
FanState(l, contacts, next, in_progress, results, issued, failed) ==
    LET f == FillWindow(contacts, next, in_progress)
    IN  IF f.in_progress = << >> /\ f.next > Len(contacts)
        THEN [pc |-> "search_insert",
              loc |-> [op |-> "search", input |-> l.input, requests |-> l.requests,
                       ghost |-> l.ghost, issued |-> issued, failed |-> failed,
                       search_cache |-> [index |-> BuildIndex(<< >>, results),
                                         contacts |-> contacts]]]
        ELSE [pc |-> "search_fan",
              loc |-> [op |-> "search", input |-> l.input, requests |-> l.requests,
                       ghost |-> l.ghost, issued |-> issued + 2 * f.pulled,
                       failed |-> failed,
                       contacts |-> contacts, next |-> f.next,
                       in_progress |-> f.in_progress, results |-> results]]

\* A sub-fetch of contact i has completed with `reply`.  When both of the
\* contact's sub-fetches are complete its future yields the triple.
SubFetchDone(l, i, which, reply) ==
    LET fut == IF which = "notes"
               THEN [l.in_progress[i] EXCEPT !.notes = reply]
               ELSE [l.in_progress[i] EXCEPT !.reminders = reply]
        rest == [x \in (DOMAIN l.in_progress) \ {i} |-> l.in_progress[x]]
        triple == [contact |-> l.contacts[i],
                   notes |-> unwrap_or_empty(fut.notes),
                   reminders |-> unwrap_or_empty(fut.reminders)]
        failed == IF reply = Err THEN l.failed \cup {<<l.contacts[i].id, which>>}
                  ELSE l.failed
    IN  IF fut.notes # Pending /\ fut.reminders # Pending
        THEN FanState(l, l.contacts, l.next, rest, Append(l.results, triple),
                      l.issued, failed)
        ELSE [pc |-> "search_fan",
              loc |-> [l EXCEPT !.in_progress = [l.in_progress EXCEPT ![i] = fut],
                                !.failed = failed]]

\* What the claims remember of a search from its start: whether it is the
\* first search started since an invalidation returned, or since a note or
\* reminder was created; whether the cache then held an entry younger than
\* the ttl; and (set later) whether another build inserted while this one
\* was under way.
StartGhost(h, cache, t) ==
    [after_inval |-> h.inval_pending,
     after_create |-> h.created_pending,
     entry_fresh |-> /\ SEARCH_KEY \in DOMAIN cache
                     /\ t - cache[SEARCH_KEY].inserted_at < Ttl,
     overtaken |-> FALSE]

SearchParams(input) ==
    [query |-> input.query,
     max_results |-> IF input.max_results.some THEN input.max_results.val
                     ELSE DEFAULT_MAX_RESULTS,
     min_confidence |-> IF input.min_confidence.some THEN input.min_confidence.val
                        ELSE DEFAULT_MIN_CONFIDENCE]

Results(search_cache, input) ==
    search(search_cache.index, search_cache.contacts, SearchParams(input).query,
           SearchParams(input).max_results, SearchParams(input).min_confidence)

\* SearchResponse {results, from_cache, index_size}, and with it what the
\* claims need of the call: `used` is the SearchCache that was searched,
\* `requests` the list requests it made, `issued` and `failed` its notes and
\* reminders requests.
SearchResponse(p, t, input, results, from_cache, search_cache, requests, issued, failed, ghost) ==
    [proc |-> p, op |-> "search_full_text", ok |-> TRUE, at |-> t, input |-> input,
     results |-> results, from_cache |-> from_cache,
     index_size |-> document_count(search_cache.index),
     used |-> search_cache, requests |-> requests, issued |-> issued,
     failed |-> failed, ghost |-> ghost]

SearchStarted(h) == [h EXCEPT !.inval_pending = FALSE, !.created_pending = FALSE]

\* ContactService::search_full_text: the query is rejected before any lookup.
SearchInvalid(p) ==
    /\ StartCall(p)
    /\ \E input \in SearchInputs :
        /\ ~validate_search_query(input.query).ok
        /\ last' = InvalidRequest(p, "search_full_text",
                                  validate_search_query(input.query).error)
    /\ UNCHANGED <<now, remoteVars, searchCache, discCache, discLock, pc, loc,
                   fails, hist, fan, cacheVars, call, threads>>

\* get_or_build_cache finds an unexpired entry: search it and return.
SearchHit(p) ==
    /\ StartCall(p)
    /\ TCGet(searchCache, SEARCH_KEY, now, Ttl).some
    /\ \E input \in SearchInputs :
        /\ validate_search_query(input.query).ok
        /\ LET cached_data == TCGet(searchCache, SEARCH_KEY, now, Ttl).val
           IN  \E results \in Results(cached_data, input) :
                 last' = SearchResponse(p, now, input, results, TRUE, cached_data,
                                        << >>, 0, {},
                                        StartGhost(hist, searchCache, now))
    /\ hist' = SearchStarted(hist)
    /\ UNCHANGED <<now, remoteVars, searchCache, discCache, discLock, pc, loc,
                   fails, fan, cacheVars, call, threads>>

\* get_or_build_cache finds no unexpired entry: start fetch_all_contacts.
SearchMiss(p) ==
    /\ StartCall(p)
    /\ ~TCGet(searchCache, SEARCH_KEY, now, Ttl).some
    /\ \E input \in SearchInputs :
        /\ validate_search_query(input.query).ok
        /\ loc' = [loc EXCEPT ![p] =
                     [op |-> "search", input |-> input, offset |-> 0,
                      all_contacts |-> << >>, requests |-> << >>,
                      ghost |-> StartGhost(hist, searchCache, now), issued |-> 0]]
    /\ pc' = [pc EXCEPT ![p] = "search_list"]
    /\ hist' = SearchStarted(hist)
    /\ UNCHANGED <<now, remoteVars, searchCache, discCache, discLock, last,
                   fails, fan, cacheVars, call, threads>>

\* fetch_all_contacts: one page request returns.
SearchListPage(p) ==
    /\ pc[p] = "search_list"
    /\ LET l == loc[p]
           contacts == RepoList(contactsDb, PAGE_SIZE, l.offset)
           count == Len(contacts)
           all_contacts == l.all_contacts \o contacts
           requests == Append(l.requests,
                              [limit |-> PAGE_SIZE, offset |-> l.offset, count |-> count])
       IN  IF IsLastPage(count)
           THEN LET st == FanState([l EXCEPT !.requests = requests],
                                   all_contacts, 1, << >>, << >>, 0, {})
                IN  /\ pc' = [pc EXCEPT ![p] = st.pc]
                    /\ loc' = [loc EXCEPT ![p] = st.loc]
           ELSE /\ pc' = pc
                /\ loc' = [loc EXCEPT ![p] =
                             [l EXCEPT !.offset = l.offset + PAGE_SIZE,
                                       !.all_contacts = all_contacts,
                                       !.requests = requests]]
    /\ UNCHANGED <<now, remoteVars, searchCache, discCache, discLock, last, ops,
                   fails, hist, fan, cacheVars, call, threads>>

\* Mutant of SearchListFail: the failed page is taken for an empty last page
\* and the build goes on.
SearchListFailSwallowed(p) ==
    /\ pc[p] = "search_list"
    /\ fails > 0
    /\ fails' = fails - 1
    /\ LET st == FanState(loc[p], loc[p].all_contacts, 1, << >>, << >>, 0, {})
       IN  /\ pc' = [pc EXCEPT ![p] = st.pc]
           /\ loc' = [loc EXCEPT ![p] = st.loc]
    /\ UNCHANGED <<now, remoteVars, searchCache, discCache, discLock, last, ops,
                   hist, fan, cacheVars, call, threads>>

\* fetch_all_contacts: a page request fails; `?` returns the error from
\* get_or_build_cache and from search_full_text.
SearchListFail(p) ==
    /\ pc[p] = "search_list"
    /\ fails > 0
    /\ fails' = fails - 1
    /\ pc' = [pc EXCEPT ![p] = "idle"]
    /\ loc' = [loc EXCEPT ![p] = Idle]
    /\ last' = ApiError(p, "search_full_text")
    /\ UNCHANGED <<now, remoteVars, searchCache, discCache, discLock, ops, hist,
                   fan, cacheVars, call, threads>>

\* The notes request of an in-flight contact returns Ok.
SearchNotesOk(p) ==
    /\ pc[p] = "search_fan"
    /\ \E i \in DOMAIN loc[p].in_progress :
        /\ loc[p].in_progress[i].notes = Pending
        /\ LET st == SubFetchDone(loc[p], i, "notes",
                        Ok(RepoForContact(notesDb, loc[p].contacts[i].id, 100, 0)))
           IN  /\ pc' = [pc EXCEPT ![p] = st.pc]
               /\ loc' = [loc EXCEPT ![p] = st.loc]
    /\ UNCHANGED <<now, remoteVars, searchCache, discCache, discLock, last, ops,
                   fails, hist, fan, cacheVars, call, threads>>

\* The notes request of an in-flight contact fails.
SearchNotesErr(p) ==
    /\ pc[p] = "search_fan"
    /\ fails > 0
    /\ fails' = fails - 1
    /\ \E i \in DOMAIN loc[p].in_progress :
        /\ loc[p].in_progress[i].notes = Pending
        /\ LET st == SubFetchDone(loc[p], i, "notes", Err)
           IN  /\ pc' = [pc EXCEPT ![p] = st.pc]
               /\ loc' = [loc EXCEPT ![p] = st.loc]
    /\ UNCHANGED <<now, remoteVars, searchCache, discCache, discLock, last, ops,
                   hist, fan, cacheVars, call, threads>>

\* The reminders request of an in-flight contact returns Ok.
SearchRemindersOk(p) ==
    /\ pc[p] = "search_fan"
    /\ \E i \in DOMAIN loc[p].in_progress :
        /\ loc[p].in_progress[i].reminders = Pending
        /\ LET st == SubFetchDone(loc[p], i, "reminders",
                        Ok(RepoForContact(remindersDb, loc[p].contacts[i].id, 100, 0)))
           IN  /\ pc' = [pc EXCEPT ![p] = st.pc]
               /\ loc' = [loc EXCEPT ![p] = st.loc]
    /\ UNCHANGED <<now, remoteVars, searchCache, discCache, discLock, last, ops,
                   fails, hist, fan, cacheVars, call, threads>>

\* The reminders request of an in-flight contact fails.
SearchRemindersErr(p) ==
    /\ pc[p] = "search_fan"
    /\ fails > 0
    /\ fails' = fails - 1
    /\ \E i \in DOMAIN loc[p].in_progress :
        /\ loc[p].in_progress[i].reminders = Pending
        /\ LET st == SubFetchDone(loc[p], i, "reminders", Err)
           IN  /\ pc' = [pc EXCEPT ![p] = st.pc]
               /\ loc' = [loc EXCEPT ![p] = st.loc]
    /\ UNCHANGED <<now, remoteVars, searchCache, discCache, discLock, last, ops,
                   hist, fan, cacheVars, call, threads>>

\* Mutant of SearchInsert: an index built with failed notes or reminders
\* requests is searched and returned but not stored.
SearchInsertCompleteOnly(p) ==
    /\ pc[p] = "search_insert"
    /\ searchCache' = IF loc[p].failed = {}
                      THEN TCInsert(searchCache, SEARCH_KEY, loc[p].search_cache, now)
                      ELSE searchCache
    /\ \E results \in Results(loc[p].search_cache, loc[p].input) :
         last' = SearchResponse(p, now, loc[p].input, results, FALSE,
                                loc[p].search_cache, loc[p].requests,
                                loc[p].issued, loc[p].failed, loc[p].ghost)
    /\ pc' = [pc EXCEPT ![p] = "idle"]
    /\ loc' = [q \in Procs |->
                 IF q = p THEN Idle
                 ELSE IF loc[q].op = "search"
                      THEN [loc[q] EXCEPT !.ghost.overtaken = TRUE]
                      ELSE loc[q]]
    /\ UNCHANGED <<now, remoteVars, discCache, discLock, ops, fails, hist, fan,
                   cacheVars, call, threads>>

\* The tail of get_or_build_cache and of search_full_text: take the write
\* lock, insert the built SearchCache, search it and return.  The builds
\* still under way are marked as overtaken by this insert.
SearchInsert(p) ==
    /\ pc[p] = "search_insert"
    /\ searchCache' = TCInsert(searchCache, SEARCH_KEY, loc[p].search_cache, now)
    /\ \E results \in Results(loc[p].search_cache, loc[p].input) :
         last' = SearchResponse(p, now, loc[p].input, results, FALSE,
                                loc[p].search_cache, loc[p].requests,
                                loc[p].issued, loc[p].failed, loc[p].ghost)
    /\ pc' = [pc EXCEPT ![p] = "idle"]
    /\ loc' = [q \in Procs |->
                 IF q = p THEN Idle
                 ELSE IF loc[q].op = "search"
                      THEN [loc[q] EXCEPT !.ghost.overtaken = TRUE]
                      ELSE loc[q]]
    /\ UNCHANGED <<now, remoteVars, discCache, discLock, ops, fails, hist, fan,
                   cacheVars, call, threads>>

\* SearchTools::invalidate_cache: take the write lock and remove the entry.
InvalidateSearchCache(p) ==
    /\ StartCall(p)
    /\ searchCache' = TCRemove(searchCache, SEARCH_KEY)
    /\ hist' = [hist EXCEPT !.inval_pending = TRUE]
    /\ last' = [proc |-> p, op |-> "invalidate_cache", ok |-> TRUE]
    /\ UNCHANGED <<now, remoteVars, discCache, discLock, pc, loc, fails, fan,
                   cacheVars, call, threads>>

(***************************************************************************)
(* ContactService::find_contact over ContactDiscoveryTools.  The service   *)
(* holds the write half of the tokio RwLock around the tools for the whole *)
(* call, its page requests included; a call that has to wait for the lock  *)
(* is modelled as starting when the lock is free.  The inputs carry no     *)
(* well-formed email, so the direct email search is not part of the model. *)
(***************************************************************************)
FIND_MAX_RESULTS == 5

FIND_MIN_CONFIDENCE == 30

NameQuery(name) ==
    [name |-> Some(name), email |-> None, phone |-> None, company |-> None,
     social_url |-> None]

FindInputs ==
    {NameQuery(<<"a", "n", "n">>),
     [NameQuery(<<"a", "n", "n">>) EXCEPT !.email = Some(<<"x">>)]}

FindValid(input) == input.email.some => validate_email(input.email.val).ok

\* FindContactResponse {matches, from_cache}; `requests` is what the claims
\* need of the call: the page requests it made.
FindResponse(p, t, input, contacts, from_cache, requests) ==
    [proc |-> p, op |-> "find_contact", ok |-> TRUE, at |-> t,
     matches |-> find_matches(input, contacts, FIND_MAX_RESULTS, FIND_MIN_CONFIDENCE),
     from_cache |-> from_cache, contacts |-> contacts, requests |-> requests]

FindInvalid(p) ==
    /\ StartCall(p)
    /\ \E input \in FindInputs :
        /\ ~FindValid(input)
        /\ last' = InvalidRequest(p, "find_contact",
                                  validate_email(input.email.val).error)
    /\ UNCHANGED <<now, remoteVars, searchCache, discCache, discLock, pc, loc,
                   fails, hist, fan, cacheVars, call, threads>>

\* get_cached_contacts finds an unexpired entry.
FindHit(p) ==
    /\ StartCall(p)
    /\ discLock = "free"
    /\ TCGet(discCache, DISCOVERY_KEY, now, Ttl).some
    /\ \E input \in FindInputs :
        /\ FindValid(input)
        /\ last' = FindResponse(p, now, input,
                                TCGet(discCache, DISCOVERY_KEY, now, Ttl).val,
                                TCContainsKey(discCache, DISCOVERY_KEY, now, Ttl),
                                << >>)
    /\ UNCHANGED <<now, remoteVars, searchCache, discCache, discLock, pc, loc,
                   fails, hist, fan, cacheVars, call, threads>>

\* get_cached_contacts finds no unexpired entry: start the paged fetch.
FindMiss(p) ==
    /\ StartCall(p)
    /\ discLock = "free"
    /\ ~TCGet(discCache, DISCOVERY_KEY, now, Ttl).some
    /\ \E input \in FindInputs :
        /\ FindValid(input)
        /\ loc' = [loc EXCEPT ![p] =
                     [op |-> "find", input |-> input, offset |-> 0,
                      all_contacts |-> << >>, requests |-> << >>]]
    /\ pc' = [pc EXCEPT ![p] = "find_list"]
    /\ discLock' = p
    /\ UNCHANGED <<now, remoteVars, searchCache, discCache, last, fails, hist,
                   fan, cacheVars, call, threads>>

\* get_cached_contacts: one page request returns.  After the last page the
\* contacts are inserted, and find_contact reads from_cache off the cache it
\* has just filled, matches and returns.
FindListPage(p) ==
    /\ pc[p] = "find_list"
    /\ LET l == loc[p]
           contacts == RepoList(contactsDb, PAGE_SIZE, l.offset)
           count == Len(contacts)
           all_contacts == l.all_contacts \o contacts
           requests == Append(l.requests,
                              [limit |-> PAGE_SIZE, offset |-> l.offset, count |-> count])
           filled == TCInsert(discCache, DISCOVERY_KEY, all_contacts, now)
       IN  IF IsLastPage(count)
           THEN /\ discCache' = filled
                /\ last' = FindResponse(p, now, l.input, all_contacts,
                                        TCContainsKey(filled, DISCOVERY_KEY, now, Ttl),
                                        requests)
                /\ pc' = [pc EXCEPT ![p] = "idle"]
                /\ loc' = [loc EXCEPT ![p] = Idle]
                /\ discLock' = "free"
           ELSE /\ loc' = [loc EXCEPT ![p] =
                             [l EXCEPT !.offset = l.offset + PAGE_SIZE,
                                       !.all_contacts = all_contacts,
                                       !.requests = requests]]
                /\ UNCHANGED <<discCache, last, pc, discLock>>
    /\ UNCHANGED <<now, remoteVars, searchCache, ops, fails, hist, fan, cacheVars, call, threads>>

\* get_cached_contacts: a page request fails; `?` returns the error and the
\* lock guard is dropped.
FindListFail(p) ==
    /\ pc[p] = "find_list"
    /\ fails > 0
    /\ fails' = fails - 1
    /\ pc' = [pc EXCEPT ![p] = "idle"]
    /\ loc' = [loc EXCEPT ![p] = Idle]
    /\ discLock' = "free"
    /\ last' = ApiError(p, "find_contact")
    /\ UNCHANGED <<now, remoteVars, searchCache, discCache, ops, hist, fan,
                   cacheVars, call, threads>>

(***************************************************************************)
(* ContactService::enrich_contact over ContactEnrichmentTools, then        *)
(* ContactService::invalidate_cache.  The steps are cut at the repository  *)
(* requests and at the two lock acquisitions of invalidate_cache.          *)
(***************************************************************************)
EnrichParams(contact_id, company) ==
    [contact_id |-> contact_id, email |-> None, phone |-> None,
     company |-> company, title |-> None, social_profiles |-> None]

EnrichInputs ==
    {EnrichParams(Id1, Some(<<"x">>)),
     EnrichParams(Blank, Some(<<"x">>)),
     [EnrichParams(Id1, None) EXCEPT !.email = Some(<<"x">>)]}

EnrichValid(params) ==
    IF ~validate_contact_id(params.contact_id).ok
    THEN validate_contact_id(params.contact_id)
    ELSE IF params.email.some THEN validate_email(params.email.val)
    ELSE Valid

\* Merge social profiles by URL (avoid duplicates).
RECURSIVE MergeProfiles(_, _)
MergeProfiles(profiles, urls) ==
    IF urls = << >> THEN profiles
    ELSE MergeProfiles(
            IF \E i \in 1..Len(profiles) : profiles[i].url = Head(urls)
            THEN profiles
            ELSE Append(profiles, [profile_type |-> "unknown", url |-> Head(urls),
                                   username |-> None]),
            Tail(urls))

\* ContactEnrichmentTools::enrich_contact, between the get and the update.
EnrichMerge(contact, params) ==
    [contact EXCEPT
        !.email = IF params.email.some THEN params.email ELSE @,
        !.phone = IF params.phone.some THEN params.phone ELSE @,
        !.company = IF params.company.some THEN params.company ELSE @,
        !.title = IF params.title.some THEN params.title ELSE @,
        !.social_profiles = IF params.social_profiles.some
                            THEN MergeProfiles(@, params.social_profiles.val)
                            ELSE @]

EnrichInvalid(p) ==
    /\ StartCall(p)
    /\ \E params \in EnrichInputs :
        /\ ~EnrichValid(params).ok
        /\ last' = InvalidRequest(p, "enrich_contact", EnrichValid(params).error)
    /\ UNCHANGED <<now, remoteVars, searchCache, discCache, discLock, pc, loc,
                   fails, hist, fan, cacheVars, call, threads>>

\* Validation passed: contact_repo.get is requested.
EnrichStart(p) ==
    /\ StartCall(p)
    /\ \E params \in EnrichInputs :
        /\ EnrichValid(params).ok
        /\ loc' = [loc EXCEPT ![p] = [op |-> "enrich", params |-> params]]
    /\ pc' = [pc EXCEPT ![p] = "enrich_get"]
    /\ UNCHANGED <<now, remoteVars, searchCache, discCache, discLock, last,
                   fails, hist, fan, cacheVars, call, threads>>

\* contact_repo.get returns the contact; it is merged and the update is
\* requested.
EnrichGetOk(p) ==
    /\ pc[p] = "enrich_get"
    /\ RepoGet(contactsDb, loc[p].params.contact_id).some
    /\ loc' = [loc EXCEPT ![p] =
                 [op |-> "enrich", params |-> loc[p].params,
                  contact |-> EnrichMerge(RepoGet(contactsDb,
                                                  loc[p].params.contact_id).val,
                                          loc[p].params)]]
    /\ pc' = [pc EXCEPT ![p] = "enrich_update"]
    /\ UNCHANGED <<now, remoteVars, searchCache, discCache, discLock, last, ops,
                   fails, hist, fan, cacheVars, call, threads>>

\* contact_repo.get fails: `?` returns the error.
EnrichGetErr(p) ==
    /\ pc[p] = "enrich_get"
    /\ fails > 0
    /\ fails' = fails - 1
    /\ pc' = [pc EXCEPT ![p] = "idle"]
    /\ loc' = [loc EXCEPT ![p] = Idle]
    /\ last' = ApiError(p, "enrich_contact")
    /\ UNCHANGED <<now, remoteVars, searchCache, discCache, discLock, ops, hist,
                   fan, cacheVars, call, threads>>

\* contact_repo.update succeeds: the remote holds the merged contact, and
\* invalidate_cache is entered.
EnrichUpdateOk(p) ==
    /\ pc[p] = "enrich_update"
    /\ contactsDb' = RepoUpdate(contactsDb, loc[p].params.contact_id, loc[p].contact)
    /\ pc' = [pc EXCEPT ![p] = "enrich_invalidate_discovery"]
    /\ UNCHANGED <<now, notesDb, remindersDb, searchCache, discCache, discLock,
                   loc, last, ops, fails, hist, fan, cacheVars, call, threads>>

\* contact_repo.update fails: `?` returns the error.
EnrichUpdateErr(p) ==
    /\ pc[p] = "enrich_update"
    /\ fails > 0
    /\ fails' = fails - 1
    /\ pc' = [pc EXCEPT ![p] = "idle"]
    /\ loc' = [loc EXCEPT ![p] = Idle]
    /\ last' = ApiError(p, "enrich_contact")
    /\ UNCHANGED <<now, remoteVars, searchCache, discCache, discLock, ops, hist,
                   fan, cacheVars, call, threads>>

\* Mutant of EnrichInvalidateDiscovery: the entry is removed without waiting
\* for the discovery write lock.
EnrichInvalidateDiscoveryUnlocked(p) ==
    /\ pc[p] = "enrich_invalidate_discovery"
    /\ discCache' = TCRemove(discCache, DISCOVERY_KEY)
    /\ pc' = [pc EXCEPT ![p] = "enrich_invalidate_search"]
    /\ loc' = [loc EXCEPT ![p] =
                 [op |-> "enrich", params |-> loc[p].params, contact |-> loc[p].contact,
                  found |-> (DOMAIN discCache) \cap {DISCOVERY_KEY}]]
    /\ UNCHANGED <<now, remoteVars, searchCache, discLock, last, ops, fails, hist,
                   fan, cacheVars, call, threads>>

\* invalidate_cache: the discovery write lock is acquired and the discovery
\* entry removed.  `found` remembers for the claims which keys held an entry
\* when they were removed.
EnrichInvalidateDiscovery(p) ==
    /\ pc[p] = "enrich_invalidate_discovery"
    /\ discLock = "free"
    /\ discLock' = p
    /\ discCache' = TCRemove(discCache, DISCOVERY_KEY)
    /\ pc' = [pc EXCEPT ![p] = "enrich_invalidate_search"]
    /\ loc' = [loc EXCEPT ![p] =
                 [op |-> "enrich", params |-> loc[p].params, contact |-> loc[p].contact,
                  found |-> (DOMAIN discCache) \cap {DISCOVERY_KEY}]]
    /\ UNCHANGED <<now, remoteVars, searchCache, last, ops, fails, hist,
                   fan, cacheVars, call, threads>>

\* invalidate_cache: the search entry is removed, the discovery guard is
\* dropped, and enrich_contact returns Ok(updated_contact).
EnrichInvalidateSearch(p) ==
    /\ pc[p] = "enrich_invalidate_search"
    /\ searchCache' = TCRemove(searchCache, SEARCH_KEY)
    /\ discLock' = "free"
    /\ hist' = [hist EXCEPT !.inval_pending = TRUE]
    /\ last' = [proc |-> p, op |-> "enrich_contact", ok |-> TRUE,
                contact |-> loc[p].contact,
                found |-> loc[p].found \cup ((DOMAIN searchCache) \cap {SEARCH_KEY})]
    /\ pc' = [pc EXCEPT ![p] = "idle"]
    /\ loc' = [loc EXCEPT ![p] = Idle]
    /\ UNCHANGED <<now, remoteVars, discCache, ops, fails, fan, cacheVars, call, threads>>

(***************************************************************************)
(* NoteService::create_note and ReminderService::create_reminder.  Each    *)
(* makes one repository request; the request and its reply are one step.   *)
(***************************************************************************)
DueDate == <<"2", "0", "2", "6", "-", "0", "1", "-", "0", "1">>

NoteInputs ==
    {[contact_id |-> Id1, content |-> <<"x">>],
     [contact_id |-> Id1, content |-> Blank]}

ReminderInputs ==
    {[contact_id |-> Id1, text |-> <<"x">>, due_date |-> DueDate],
     [contact_id |-> Id1, text |-> <<"x">>, due_date |-> <<"x">>]}

NoteValid(input) ==
    IF ~validate_contact_id(input.contact_id).ok
    THEN validate_contact_id(input.contact_id)
    ELSE validate_note_content(input.content)

ReminderValid(input) ==
    IF ~validate_contact_id(input.contact_id).ok
    THEN validate_contact_id(input.contact_id)
    ELSE IF ~validate_reminder_text(input.text).ok
         THEN validate_reminder_text(input.text)
    ELSE validate_date_format(input.due_date)

\* The id the remote assigns to a created item.
AssignId(db, prefix) ==
    prefix \o Decimal(1 + Cardinality(UNION {{db[c][i].id : i \in 1..Len(db[c])} :
                                                c \in DOMAIN db}))

\* NoteRepository::create / ReminderRepository::create
RepoCreate(db, contact_id, item) ==
    [c \in (DOMAIN db) \cup {contact_id} |->
        IF c = contact_id
        THEN (IF c \in DOMAIN db THEN db[c] ELSE << >>) \o <<item>>
        ELSE db[c]]

CreateNoteInvalid(p) ==
    /\ StartCall(p)
    /\ \E input \in NoteInputs :
        /\ ~NoteValid(input).ok
        /\ last' = InvalidRequest(p, "create_note", NoteValid(input).error)
    /\ UNCHANGED <<now, remoteVars, searchCache, discCache, discLock, pc, loc,
                   fails, hist, fan, cacheVars, call, threads>>

CreateNoteOk(p) ==
    /\ StartCall(p)
    /\ \E input \in NoteInputs :
        /\ NoteValid(input).ok
        /\ LET note == [id |-> AssignId(notesDb, <<"n">>),
                        contact_id |-> input.contact_id, content |-> input.content]
           IN  /\ notesDb' = RepoCreate(notesDb, input.contact_id, note)
               /\ last' = [proc |-> p, op |-> "create_note", ok |-> TRUE,
                           note |-> note]
    /\ hist' = [hist EXCEPT !.created_pending = TRUE]
    /\ UNCHANGED <<now, contactsDb, remindersDb, searchCache, discCache, discLock,
                   pc, loc, fails, fan, cacheVars, call, threads>>

CreateNoteErr(p) ==
    /\ StartCall(p)
    /\ fails > 0
    /\ fails' = fails - 1
    /\ \E input \in NoteInputs : NoteValid(input).ok
    /\ last' = ApiError(p, "create_note")
    /\ UNCHANGED <<now, remoteVars, searchCache, discCache, discLock, pc, loc,
                   hist, fan, cacheVars, call, threads>>

CreateReminderInvalid(p) ==
    /\ StartCall(p)
    /\ \E input \in ReminderInputs :
        /\ ~ReminderValid(input).ok
        /\ last' = InvalidRequest(p, "create_reminder", ReminderValid(input).error)
    /\ UNCHANGED <<now, remoteVars, searchCache, discCache, discLock, pc, loc,
                   fails, hist, fan, cacheVars, call, threads>>

CreateReminderOk(p) ==
    /\ StartCall(p)
    /\ \E input \in ReminderInputs :
        /\ ReminderValid(input).ok
        /\ LET reminder == [id |-> AssignId(remindersDb, <<"r">>),
                            contact_id |-> input.contact_id, text |-> input.text]
           IN  /\ remindersDb' = RepoCreate(remindersDb, input.contact_id, reminder)
               /\ last' = [proc |-> p, op |-> "create_reminder", ok |-> TRUE,
                           reminder |-> reminder]
    /\ hist' = [hist EXCEPT !.created_pending = TRUE]
    /\ UNCHANGED <<now, contactsDb, notesDb, searchCache, discCache, discLock,
                   pc, loc, fails, fan, cacheVars, call, threads>>

CreateReminderErr(p) ==
    /\ StartCall(p)
    /\ fails > 0
    /\ fails' = fails - 1
    /\ \E input \in ReminderInputs : ReminderValid(input).ok
    /\ last' = ApiError(p, "create_reminder")
    /\ UNCHANGED <<now, remoteVars, searchCache, discCache, discLock, pc, loc,
                   hist, fan, cacheVars, call, threads>>

(***************************************************************************)
(* Spec: the server after construction, with the remote's initial data,    *)
(* and callers that issue calls concurrently while time passes.            *)
(***************************************************************************)
\* No pure function is under test.
NoApply == [fn |-> "none"]

MaxThreads == 2

MaxThreadOps == 2

ThreadIds == 1..MaxThreads

\* RwLock::new: no guard is out.  Every thread holds a clone of the cache
\* and is between operations.  `inserted` and `shrunk` are history: the
\* keys whose insert has completed, and whether a remove or a
\* cleanup_expired has; `overlapped`, whether an operation has begun while
\* another was under way.
NoThreads ==
    [lock |-> [writers |-> {}, readers |-> {}],
     of |-> [t \in ThreadIds |-> [pc |-> "idle", left |-> MaxThreadOps]],
     inserted |-> {}, shrunk |-> FALSE, overlapped |-> FALSE]

InitHist == [inval_pending |-> FALSE, created_pending |-> FALSE]

FanIdle == [stage |-> "none"]

InitServer ==
    /\ now = 0
    /\ searchCache = TCNew
    /\ discCache = TCNew
    /\ discLock = "free"
    /\ pc = [p \in Procs |-> "idle"]
    /\ loc = [p \in Procs |-> Idle]
    /\ last = NoCall
    /\ hist = InitHist
    /\ tc = TCNew
    /\ tcLast = [op |-> "new"]
    /\ threads = NoThreads

Init ==
    /\ InitServer
    /\ call = NoApply
    /\ fan = FanIdle
    /\ ops = MaxOps
    /\ fails = MaxFails
    /\ contactsDb = InitContacts
    /\ notesDb = InitNotes
    /\ remindersDb = InitReminders

Tick ==
    /\ now < MaxTime
    /\ now' = now + 1

MainTick ==
    /\ Tick
    /\ UNCHANGED <<mainVars, fan, cacheVars, call, threads>>

Next ==
    \/ MainTick
    \/ \E p \in Procs :
        \/ SearchInvalid(p)
        \/ SearchHit(p)
        \/ SearchMiss(p)
        \/ SearchListPage(p)
        \/ SearchListFail(p)
        \/ SearchNotesOk(p)
        \/ SearchNotesErr(p)
        \/ SearchRemindersOk(p)
        \/ SearchRemindersErr(p)
        \/ SearchInsert(p)
        \/ InvalidateSearchCache(p)
        \/ FindInvalid(p)
        \/ FindHit(p)
        \/ FindMiss(p)
        \/ FindListPage(p)
        \/ FindListFail(p)
        \/ EnrichInvalid(p)
        \/ EnrichStart(p)
        \/ EnrichGetOk(p)
        \/ EnrichGetErr(p)
        \/ EnrichUpdateOk(p)
        \/ EnrichUpdateErr(p)
        \/ EnrichInvalidateDiscovery(p)
        \/ EnrichInvalidateSearch(p)
        \/ CreateNoteInvalid(p)
        \/ CreateNoteOk(p)
        \/ CreateNoteErr(p)
        \/ CreateReminderInvalid(p)
        \/ CreateReminderOk(p)
        \/ CreateReminderErr(p)

Spec == Init /\ [][Next]_vars

(***************************************************************************)
(* SpecBuild: one caller's index builds over a remote of two contacts,     *)
(* each with a note and a reminder, where any of the notes and reminders   *)
(* requests may fail.                                                      *)
(***************************************************************************)
\* The remote requests that fail in one behaviour of SpecBuild.
MaxBuildFails == 2

BuildContacts == <<Contact(Id1, <<"A", "n", "n">>), Contact(Id2, <<"b", "o", "b">>)>>

BuildNotes ==
    [id \in {Id1, Id2} |->
        <<[id |-> <<"n">> \o Tail(id), contact_id |-> id, content |-> HtmlX]>>]

BuildReminders ==
    [id \in {Id1, Id2} |->
        <<[id |-> <<"r">> \o Tail(id), contact_id |-> id, text |-> <<"x">>]>>]

BuildInit ==
    /\ InitServer
    /\ call = NoApply
    /\ fan = FanIdle
    /\ ops = MaxOps
    /\ fails = MaxBuildFails
    /\ contactsDb = BuildContacts
    /\ notesDb = BuildNotes
    /\ remindersDb = BuildReminders

BuildNext ==
    \/ MainTick
    \/ \E p \in {"p1"} :
        \/ SearchHit(p)
        \/ SearchMiss(p)
        \/ SearchListPage(p)
        \/ SearchNotesOk(p)
        \/ SearchNotesErr(p)
        \/ SearchRemindersOk(p)
        \/ SearchRemindersErr(p)
        \/ SearchInsert(p)

SpecBuild == BuildInit /\ [][BuildNext]_vars

(***************************************************************************)
(* SpecPages: the two paged bulk fetches (SearchTools::fetch_all_contacts  *)
(* and ContactDiscoveryTools::get_cached_contacts) against a remote that   *)
(* holds a fixed number of contacts, from none to MaxRemote.               *)
(***************************************************************************)
MaxRemote == 201

RemoteContact(i) == Contact(<<"c">> \o Decimal(i), <<"n">> \o Decimal(i))

PagesInit ==
    /\ InitServer
    /\ call = NoApply
    /\ fan = FanIdle
    /\ ops = MaxOps
    /\ fails = 0
    /\ \E n \in 0..MaxRemote : contactsDb = [i \in 1..n |-> RemoteContact(i)]
    /\ notesDb = << >>
    /\ remindersDb = << >>

PagesNext ==
    \E p \in {"p1"} :
        \/ SearchMiss(p)
        \/ SearchListPage(p)
        \/ FindMiss(p)
        \/ FindListPage(p)

SpecPages == PagesInit /\ [][PagesNext]_vars

(***************************************************************************)
(* SpecFanout: the fan-out of one build (get_or_build_cache, the stream    *)
(* with buffer_unordered) over a snapshot of up to MaxFanContacts          *)
(* contacts.  The contacts are interchangeable for the stream, so the      *)
(* state counts them by stage: `next` is the first contact the stream has  *)
(* not pulled, `in_flight` the pulled futures that have not yielded,       *)
(* `yielded` the triples collected.  One contact, `tracked`, chosen when   *)
(* the build starts, is followed on its own and is not part of the counts: *)
(* `t` holds how often it was pulled and has yielded, and the state of its *)
(* two requests.                                                           *)
(***************************************************************************)
MaxFanContacts == 22

FanInFlight(f) == f.in_flight + (IF f.t.notes # "none" /\ f.t.yields = 0 THEN 1 ELSE 0)

\* The stream pulls futures while the window has room; a pulled future
\* issues both of its requests (tokio::join!).
FanFill(f) ==
    LET k == Max(0, Min(FanRoom(FanInFlight(f)), f.total - f.next + 1))
        pulls_tracked == f.tracked \in f.next..(f.next + k - 1)
    IN  [f EXCEPT !.next = f.next + k,
                  !.in_flight = f.in_flight + k - (IF pulls_tracked THEN 1 ELSE 0),
                  !.t = IF pulls_tracked
                        THEN [pulls |-> f.t.pulls + 1, notes |-> "pending",
                              reminders |-> "pending", yields |-> f.t.yields]
                        ELSE f.t]

\* The stream is exhausted and nothing is in flight: collect() returns.
FanCollected(f) ==
    [f EXCEPT !.stage = IF f.next > f.total /\ FanInFlight(f) = 0
                        THEN "collected" ELSE "fan"]

FanInit ==
    /\ InitServer
    /\ call = NoApply
    /\ ops = 0
    /\ fails = 0
    /\ contactsDb = << >>
    /\ notesDb = << >>
    /\ remindersDb = << >>
    /\ \E total \in 0..MaxFanContacts :
        \E tracked \in (IF total = 0 THEN {0} ELSE 1..total) :
            fan = FanCollected(FanFill(
                    [stage |-> "fan", total |-> total, tracked |-> tracked,
                     next |-> 1, in_flight |-> 0, yielded |-> 0,
                     t |-> [pulls |-> 0, notes |-> "none", reminders |-> "none",
                            yields |-> 0]]))

\* The second request of a contact other than the tracked one completes
\* (with Ok or Err, unwrap_or_else takes both): its future yields its
\* triple, and the stream refills the window.
FanOtherYields ==
    /\ fan.stage = "fan"
    /\ fan.in_flight > 0
    /\ fan' = FanCollected(FanFill([fan EXCEPT !.in_flight = fan.in_flight - 1,
                                               !.yielded = fan.yielded + 1]))
    /\ UNCHANGED <<now, mainVars, cacheVars, call, threads>>

\* One request of the tracked contact completes; when both have, its future
\* yields.
FanTrackedDone(which) ==
    LET t == IF which = "notes" THEN [fan.t EXCEPT !.notes = "done"]
             ELSE [fan.t EXCEPT !.reminders = "done"]
    IN  IF t.notes = "done" /\ t.reminders = "done"
        THEN FanCollected(FanFill([fan EXCEPT !.t = [t EXCEPT !.yields = t.yields + 1]]))
        ELSE [fan EXCEPT !.t = t]

FanTrackedNotesDone ==
    /\ fan.stage = "fan"
    /\ fan.t.notes = "pending"
    /\ fan' = FanTrackedDone("notes")
    /\ UNCHANGED <<now, mainVars, cacheVars, call, threads>>

FanTrackedRemindersDone ==
    /\ fan.stage = "fan"
    /\ fan.t.reminders = "pending"
    /\ fan' = FanTrackedDone("reminders")
    /\ UNCHANGED <<now, mainVars, cacheVars, call, threads>>

FanNext ==
    \/ FanOtherYields
    \/ FanTrackedNotesDone
    \/ FanTrackedRemindersDone

SpecFanout == FanInit /\ [][FanNext]_vars

(***************************************************************************)
(* SpecCache: every sequence of TimedCache operations on a small key and   *)
(* value set, interleaved with the passage of time.                        *)
(***************************************************************************)
TCKeys == {"k1", "k2"}

TCValues == {"v1", "v2"}

CacheTick ==
    /\ Tick
    /\ tcLast' = [op |-> "tick"]
    /\ UNCHANGED <<tc, mainVars, fan, call, threads>>

CacheInsert ==
    \E k \in TCKeys, v \in TCValues :
        /\ tc' = TCInsert(tc, k, v, now)
        /\ tcLast' = [op |-> "insert", key |-> k, value |-> v,
                      old |-> IF k \in DOMAIN tc THEN Some(tc[k]) ELSE None]
        /\ UNCHANGED <<now, mainVars, fan, call, threads>>

CacheGet ==
    \E k \in TCKeys :
        /\ tcLast' = [op |-> "get", key |-> k, result |-> TCGet(tc, k, now, Ttl)]
        /\ UNCHANGED <<tc, now, mainVars, fan, call, threads>>

CacheContainsKey ==
    \E k \in TCKeys :
        /\ tcLast' = [op |-> "contains_key", key |-> k,
                      result |-> TCContainsKey(tc, k, now, Ttl)]
        /\ UNCHANGED <<tc, now, mainVars, fan, call, threads>>

CacheRemove ==
    \E k \in TCKeys :
        /\ tc' = TCRemove(tc, k)
        /\ tcLast' = [op |-> "remove", key |-> k]
        /\ UNCHANGED <<now, mainVars, fan, call, threads>>

CacheClear ==
    /\ tc' = TCClear(tc)
    /\ tcLast' = [op |-> "clear"]
    /\ UNCHANGED <<now, mainVars, fan, call, threads>>

CacheCleanupExpired ==
    /\ tc' = TCCleanupExpired(tc, now, Ttl)
    /\ tcLast' = [op |-> "cleanup_expired",
                  dropped |-> (DOMAIN tc) \ DOMAIN TCCleanupExpired(tc, now, Ttl)]
    /\ UNCHANGED <<now, mainVars, fan, call, threads>>

CacheLen ==
    /\ tcLast' = [op |-> "len", result |-> TCLen(tc)]
    /\ UNCHANGED <<tc, now, mainVars, fan, call, threads>>

CacheInit == Init

CacheNext ==
    \/ CacheTick
    \/ CacheInsert
    \/ CacheGet
    \/ CacheContainsKey
    \/ CacheRemove
    \/ CacheClear
    \/ CacheCleanupExpired
    \/ CacheLen

SpecCache == CacheInit /\ [][CacheNext]_vars

(***************************************************************************)
(* SpecRank: the two ranking functions, ContactMatcher::find_matches and   *)
(* FullTextSearchIndex::search, and the two scoring functions under them,  *)
(* each applied once to arguments drawn from the sets below.  `call` holds *)
(* the arguments, and after the application the value returned.            *)
(***************************************************************************)
Args(fn, args) == [fn |-> fn, stage |-> "args", args |-> args]

Returned(c, result) == [fn |-> c.fn, stage |-> "returned", args |-> c.args, result |-> result]

\* The application of a pure function: no other part of the state moves.
Apply(result) ==
    /\ call.stage = "args"
    /\ call' = Returned(call, result)
    /\ UNCHANGED <<now, mainVars, fan, cacheVars, threads>>

\* Every variable but `call`, at rest.
ApplyInit ==
    /\ InitServer
    /\ fan = FanIdle
    /\ ops = 0
    /\ fails = 0
    /\ contactsDb = << >>
    /\ notesDb = << >>
    /\ remindersDb = << >>

Email1 == <<"a", "@", "b">>

Email1Spelled == <<" ", "A", "@", "B">>

Email2 == <<"n", "@", "b">>

Phone1 == <<"1", "2">>

Phone1Spelled == <<"1", "-", "2">>

Url1 == <<"x", ".", "a">>

Url1Spelled == <<"h", "t", "t", "p", ":", "/", "/", "x", ".", "a", "/">>

Company1 == <<"x", "o">>

Profile(url) == [url |-> url]

\* The people find_matches is tried on: two share a name (up to case), two
\* an email address, two a phone number, two a profile URL.
People ==
    {[Contact(<<"1">>, <<"a", "n", "n">>) EXCEPT
          !.email = Some(Email1), !.phone = Some(Phone1),
          !.social_profiles = <<Profile(Url1)>>, !.company = Some(Company1)],
     [Contact(<<"2">>, <<"a", "n", "n", "a">>) EXCEPT !.emails = <<Email2>>],
     [Contact(<<"3">>, <<"A", "n", "n">>) EXCEPT
          !.phones = <<Phone1>>, !.company = Some(Company1)],
     [Contact(<<"4">>, <<"b", "o", "b">>) EXCEPT
          !.email = Some(Email1), !.social_profiles = <<Profile(Url1)>>]}

MaxPeople == 3

\* The contact lists: up to MaxPeople different people, in any order.
PeopleLists ==
    UNION {{l \in [1..n -> People] : \A i, j \in 1..n : i # j => l[i] # l[j]} :
             n \in 0..MaxPeople}

OptionOf(values) == {None} \cup {Some(v) : v \in values}

ContactQueries ==
    [name : OptionOf({<<"a", "n", "n">>}),
     email : OptionOf({Email1Spelled, Email2}),
     phone : OptionOf({Phone1Spelled}),
     company : OptionOf({Company1}),
     social_url : OptionOf({Url1Spelled})]

FindMatchesArgs ==
    [query : ContactQueries, contacts : PeopleLists,
     max_results : 1..MaxPeople, min_confidence : {0, 80, 96}]

ApplyFindMatches ==
    /\ call.fn = "find_matches"
    /\ Apply(find_matches(call.args.query, call.args.contacts, call.args.max_results,
                          call.args.min_confidence))

\* The strings the scoring functions are tried on: every string of up to
\* MaxWord characters of "a", "b" and the space.
MaxWord == 3

Words == UNION {[1..n -> {"a", "b", " "}] : n \in 0..MaxWord}

ApplyFuzzyScore ==
    /\ call.fn = "calculate_fuzzy_score"
    /\ Apply(calculate_fuzzy_score(call.args.query, call.args.target))

ApplyMatchConfidence ==
    /\ call.fn = "calculate_match_confidence"
    /\ Apply(calculate_match_confidence(call.args.query, call.args.content))

\* The documents search is tried on.  With the query "x" a document "x"
\* scores 95, "xb" 52 and "x b" 38.
Content95 == <<"x">>

Content52 == <<"X", "b">>

Content38 == <<"x", " ", "b">>

NoteContents ==
    {<< >>, <<Content95>>, <<Content52>>, <<Content38>>, <<Content95, Content95>>,
     <<Content52, Content95>>, <<Content95, Content52, Content38>>,
     <<Content95, Content95, Content95, Content95>>,
     <<Content52, Content52, Content52, Content52, Content52>>}

NoteDocsOf(contact, contents) ==
    [i \in 1..Len(contents) |->
        Doc(contact, "Note", contents[i], Some(contact.id \o Decimal(i)))]

Indexed == <<Contact(<<"1">>, <<"a">>), Contact(<<"2">>, <<"b">>), Contact(<<"3">>, <<"c">>)>>

SearchArgs ==
    {[documents |-> NoteDocsOf(Indexed[1], n[1]) \o NoteDocsOf(Indexed[2], n[2])
                        \o NoteDocsOf(Indexed[3], n[3]),
      contacts |-> contacts, query |-> <<"X">>, max_results |-> max_results,
      min_confidence |-> min_confidence] :
        n \in [1..3 -> NoteContents],
        contacts \in {Indexed, SubSeq(Indexed, 1, 2)},
        max_results \in 1..3,
        min_confidence \in {0, 50, 96}}

ApplySearch ==
    /\ call.fn = "search"
    /\ \E results \in search(call.args.documents, call.args.contacts, call.args.query,
                             call.args.max_results, call.args.min_confidence) :
            Apply(results)

RankInit ==
    /\ ApplyInit
    /\ \/ \E args \in FindMatchesArgs : call = Args("find_matches", args)
       \/ \E args \in SearchArgs : call = Args("search", args)
       \/ \E query \in Words, target \in Words :
            call = Args("calculate_fuzzy_score", [query |-> query, target |-> target])
       \/ \E query \in Words, content \in Words :
            call = Args("calculate_match_confidence",
                        [query |-> query, content |-> content])

RankNext ==
    \/ ApplyFindMatches
    \/ ApplySearch
    \/ ApplyFuzzyScore
    \/ ApplyMatchConfidence

SpecRank == RankInit /\ [][RankNext]_vars

(***************************************************************************)
(* SpecNormalize: the four normalizers of ContactMatcher, each applied     *)
(* once to a string spelled from up to MaxTokens of the pieces below.      *)
(***************************************************************************)
MaxTokens == 3

\* The pieces the normalizers act on: the prefixes normalize_url strips,
\* the slash, white space, letters of both cases, digits (one run of ten,
\* so that normalize_phone's cut to the last ten digits happens) and a dash.
Tokens ==
    {<<"h", "t", "t", "p", "s", ":", "/", "/">>, <<"h", "t", "t", "p", ":", "/", "/">>,
     <<"w", "w", "w", ".">>, <<"/">>, <<" ">>, <<"a">>, <<"A">>, <<"1">>,
     <<"2", "3", "4", "5", "6", "7", "8", "9", "0", "1">>, <<"-">>}

Spelled == {Concat(tokens) : tokens \in UNION {[1..n -> Tokens] : n \in 0..MaxTokens}}

ApplyNormalizeEmail ==
    /\ call.fn = "normalize_email"
    /\ Apply(normalize_email(call.args.s))

ApplyNormalizePhone ==
    /\ call.fn = "normalize_phone"
    /\ Apply(normalize_phone(call.args.s))

ApplyNormalizeUrl ==
    /\ call.fn = "normalize_url"
    /\ Apply(normalize_url(call.args.s))

ApplyNormalizeName ==
    /\ call.fn = "normalize_name"
    /\ Apply(normalize_name(call.args.s))

NormalizeInit ==
    /\ ApplyInit
    /\ \E fn \in {"normalize_email", "normalize_phone", "normalize_url", "normalize_name"} :
         \E s \in Spelled : call = Args(fn, [s |-> s])

NormalizeNext ==
    \/ ApplyNormalizeEmail
    \/ ApplyNormalizePhone
    \/ ApplyNormalizeUrl
    \/ ApplyNormalizeName

SpecNormalize == NormalizeInit /\ [][NormalizeNext]_vars

(***************************************************************************)
(* SpecSnippet: FullTextSearchIndex::find_match applied once, as search    *)
(* applies it to one document, with the query lower-cased.  The document   *)
(* is a note whose content is a run of "a", then the span the query        *)
(* matches, spelled "Xx...x", then a run of "b".                           *)
(***************************************************************************)
MaxLead == 52

MaxSpan == 96

MaxTail == 51

Run(c, n) == [i \in 1..n |-> c]

\* Lengths on both sides of CONTEXT_CHARS, and of the longest query whose
\* span still fits a snippet of MAX_SNIPPET_LENGTH.
Leads == {0, 1, CONTEXT_CHARS - 1, CONTEXT_CHARS, CONTEXT_CHARS + 1, MaxLead}

Spans == {1, 2, 44, 45, 94, 95, MaxSpan}

Tails == {0, 1, 2, 3, CONTEXT_CHARS - 1, CONTEXT_CHARS, MaxTail}

SpanOf(n) == <<"X">> \o Run("x", n - 1)

SnippetArgs ==
    {[doc |-> Doc(Indexed[1], "Note", Run("a", lead) \o SpanOf(span) \o Run("b", tail),
                  Some(<<"1">>)),
      query |-> IF lower THEN to_lowercase(SpanOf(span)) ELSE SpanOf(span)] :
        lead \in Leads, span \in Spans, tail \in Tails, lower \in BOOLEAN}

ApplyFindMatch ==
    /\ call.fn = "find_match"
    /\ Apply(find_match(call.args.doc, to_lowercase(call.args.query)))

SnippetInit ==
    /\ ApplyInit
    /\ \E args \in SnippetArgs : call = Args("find_match", args)

SnippetNext == ApplyFindMatch

SpecSnippet == SnippetInit /\ [][SnippetNext]_vars

(***************************************************************************)
(* SpecThreads: MaxThreads threads, each with a clone of one TimedCache    *)
(* (the clones share the Arc, so all act on `tc`), each running up to      *)
(* MaxThreadOps operations.  An operation reads Instant::now() where its   *)
(* code does, before it asks for the lock; waits for the std RwLock; runs  *)
(* its body on the map; and drops the guard.  The body of a writer is not  *)
(* atomic by itself: it works from the map as it found it (`snap`) and     *)
(* what it stores is computed from that.                                   *)
(***************************************************************************)
ThreadReaders == {"get", "len"}

ThreadWriters == {"insert", "remove", "cleanup_expired"}

\* The operations a thread may begin, with their arguments.
ThreadOps ==
    {[op |-> "insert", key |-> k, value |-> "v1"] : k \in TCKeys}
        \cup {[op |-> o, key |-> k] : o \in {"get", "remove"}, k \in TCKeys}
        \cup {[op |-> "len"], [op |-> "cleanup_expired"]}

\* Mutant of CanWrite: a writer is admitted while another writes.
CanWriteBesideWriter(lock) == lock.readers = {}

\* RwLock::read succeeds while no writer holds the lock, RwLock::write
\* while nobody does.
CanRead(lock) == lock.writers = {}

CanWrite(lock) == lock.writers = {} /\ lock.readers = {}

ThreadTick ==
    /\ Tick
    /\ UNCHANGED <<mainVars, fan, cacheVars, call, threads>>

\* insert, get and cleanup_expired read the clock before they ask for the
\* lock; remove and len do not read it.
ReadsClock(o) == o.op \in {"insert", "get", "cleanup_expired"}

\* A thread begins an operation.
ThreadCall(t) ==
    /\ threads.of[t].pc = "idle"
    /\ threads.of[t].left > 0
    /\ \E o \in ThreadOps :
         threads' = [threads EXCEPT
                        !.of[t] = [pc |-> "wait", left |-> threads.of[t].left,
                                   call |-> o,
                                   at |-> IF ReadsClock(o) THEN now ELSE 0],
                        !.overlapped = @ \/ \E u \in ThreadIds \ {t} :
                                                 threads.of[u].pc # "idle"]
    /\ UNCHANGED <<now, mainVars, fan, cacheVars, call>>

\* self.cache.read() returns the guard.
ThreadLockRead(t) ==
    /\ threads.of[t].pc = "wait"
    /\ threads.of[t].call.op \in ThreadReaders
    /\ CanRead(threads.lock)
    /\ threads' = [threads EXCEPT !.of[t].pc = "held",
                                  !.lock.readers = @ \cup {t}]
    /\ UNCHANGED <<now, mainVars, fan, cacheVars, call>>

\* self.cache.write() returns the guard; the body starts from the map as
\* it is.
ThreadLockWrite(t) ==
    /\ threads.of[t].pc = "wait"
    /\ threads.of[t].call.op \in ThreadWriters
    /\ CanWrite(threads.lock)
    /\ threads' = [threads EXCEPT
                      !.of[t] = [pc |-> "held", left |-> threads.of[t].left,
                                 call |-> threads.of[t].call, at |-> threads.of[t].at,
                                 snap |-> tc],
                      !.lock.writers = @ \cup {t}]
    /\ UNCHANGED <<now, mainVars, fan, cacheVars, call>>

\* What a reader returns, from the map under its guard.
ThreadRead(c, o, at) ==
    CASE o.op = "get" -> TCGet(c, o.key, at, Ttl)
      [] o.op = "len" -> TCLen(c)

\* What a writer leaves in the map.
ThreadWrite(c, o, at) ==
    CASE o.op = "insert" -> TCInsert(c, o.key, o.value, at)
      [] o.op = "remove" -> TCRemove(c, o.key)
      [] o.op = "cleanup_expired" -> TCCleanupExpired(c, at, Ttl)

ThreadDone(t) == [pc |-> "idle", left |-> threads.of[t].left - 1]

\* The body of a reader ends and its guard is dropped.
ThreadUnlockRead(t) ==
    /\ threads.of[t].pc = "held"
    /\ threads.of[t].call.op \in ThreadReaders
    /\ tcLast' = [op |-> threads.of[t].call.op, thread |-> t,
                  result |-> ThreadRead(tc, threads.of[t].call, threads.of[t].at)]
    /\ threads' = [threads EXCEPT !.of[t] = ThreadDone(t),
                                  !.lock.readers = @ \ {t}]
    /\ UNCHANGED <<now, mainVars, fan, tc, call>>

\* The body of a writer ends and its guard is dropped.
ThreadUnlockWrite(t) ==
    /\ threads.of[t].pc = "held"
    /\ threads.of[t].call.op \in ThreadWriters
    /\ tc' = ThreadWrite(threads.of[t].snap, threads.of[t].call, threads.of[t].at)
    /\ tcLast' = [op |-> threads.of[t].call.op, thread |-> t]
    /\ threads' = [threads EXCEPT
                      !.of[t] = ThreadDone(t),
                      !.lock.writers = @ \ {t},
                      !.inserted = IF threads.of[t].call.op = "insert"
                                   THEN @ \cup {threads.of[t].call.key} ELSE @,
                      !.shrunk = @ \/ threads.of[t].call.op # "insert"]
    /\ UNCHANGED <<now, mainVars, fan, call>>

ThreadsInit ==
    /\ ApplyInit
    /\ call = NoApply

ThreadsNext ==
    \/ ThreadTick
    \/ \E t \in ThreadIds : ThreadCall(t)
    \/ \E t \in ThreadIds : ThreadLockRead(t)
    \/ \E t \in ThreadIds : ThreadLockWrite(t)
    \/ \E t \in ThreadIds : ThreadUnlockRead(t)
    \/ \E t \in ThreadIds : ThreadUnlockWrite(t)

\* A thread that is running keeps running: once the lock can be taken it
\* is taken, and a body ends.
ThreadsFair ==
    \A t \in ThreadIds :
        /\ WF_vars(ThreadLockRead(t) \/ ThreadLockWrite(t))
        /\ WF_vars(ThreadUnlockRead(t) \/ ThreadUnlockWrite(t))

SpecThreads == ThreadsInit /\ [][ThreadsNext]_vars /\ ThreadsFair

(***************************************************************************)
(* SpecIndex: FullTextSearchIndex::index_contact applied to an index, and  *)
(* applied once more with the same arguments; and the loop of              *)
(* get_or_build_cache that indexes the collected results into a new index. *)
(***************************************************************************)
MaxNotes == 2

HtmlBlank == <<"<", "p", ">", " ", "<", "/", "p", ">">>

Phone9 == <<"9">>

\* Contacts with every combination of the indexed fields present or not.
IndexContacts ==
    {[Contact(<<"1">>, name) EXCEPT
          !.email = email, !.emails = emails, !.phone = phone, !.phones = phones,
          !.company = company, !.title = title] :
        name \in {<<"a">>, << >>},
        email \in OptionOf({Email1}),
        emails \in {<< >>, <<Email2>>, <<Email2, Email1>>},
        phone \in OptionOf({Phone1}),
        phones \in {<< >>, <<Phone9>>},
        company \in OptionOf({Company1}),
        title \in OptionOf({<<"c">>})}

\* Up to MaxNotes notes: with text under the markup, with none, of blanks.
IndexNotes ==
    UNION {[1..n -> {[id |-> <<"n">>, contact_id |-> <<"1">>, content |-> content] :
                        content \in {HtmlX, HtmlBlank, Blank}}] : n \in 0..MaxNotes}

IndexReminders ==
    UNION {[1..n -> {[id |-> <<"r">>, contact_id |-> <<"1">>, text |-> text] :
                        text \in {QueryX, Blank}}] : n \in 0..MaxNotes}

\* The index before the call: new, or holding a document of another contact.
IndexesBefore == {<< >>, <<Doc(Indexed[2], "Name", Indexed[2].name, None)>>}

IndexArgs ==
    [documents : IndexesBefore, contact : IndexContacts, notes : IndexNotes,
     reminders : IndexReminders]

\* The triples the fan-out can collect, and the result lists of a build.
IndexTriples ==
    {[contact |-> contact, notes |-> notes, reminders |-> reminders] :
        contact \in {c \in IndexContacts : c.name # << >> /\ c.emails = << >> /\ ~c.title.some},
        notes \in {<< >>, <<[id |-> <<"n">>, contact_id |-> <<"1">>, content |-> HtmlX]>>},
        reminders \in {<< >>, <<[id |-> <<"r">>, contact_id |-> <<"1">>, text |-> Blank]>>}}

BuildArgs == UNION {[1..n -> IndexTriples] : n \in 0..2}

ApplyIndexContact ==
    /\ call.fn = "index_contact"
    /\ Apply(index_contact(call.args.documents, call.args.contact, call.args.notes,
                           call.args.reminders))

\* The same call on the index the first call left.
ApplyIndexContactAgain ==
    /\ call.fn = "index_contact"
    /\ call.stage = "returned"
    /\ call' = [fn |-> call.fn, stage |-> "again", args |-> call.args,
                first |-> call.result,
                result |-> index_contact(call.result, call.args.contact, call.args.notes,
                                         call.args.reminders)]
    /\ UNCHANGED <<now, mainVars, fan, cacheVars, threads>>

ApplyBuildIndex ==
    /\ call.fn = "build_index"
    /\ Apply(BuildIndex(<< >>, call.args.results))

IndexInit ==
    /\ ApplyInit
    /\ \/ \E args \in IndexArgs : call = Args("index_contact", args)
       \/ \E results \in BuildArgs : call = Args("build_index", [results |-> results])

IndexNext ==
    \/ ApplyIndexContact
    \/ ApplyIndexContactAgain
    \/ ApplyBuildIndex

SpecIndex == IndexInit /\ [][IndexNext]_vars

(***************************************************************************)
(* SpecDegraded: the builds of SpecBuild, whose notes and reminders        *)
(* requests may fail, together with SearchTools::invalidate_cache.         *)
(***************************************************************************)
DegradedNext ==
    \/ BuildNext
    \/ \E p \in {"p1"} : InvalidateSearchCache(p)

SpecDegraded == BuildInit /\ [][DegradedNext]_vars

(***************************************************************************)
(* What the claims read off the state.  `last` is the call that returned   *)
(* last; every step that changes searchCache also sets `last`, so in a     *)
(* state where `last` is a search, searchCache is the map that search      *)
(* left behind.                                                            *)
(***************************************************************************)
LastIsSearch == last.op = "search_full_text" /\ last.ok

(***************************************************************************)
(* C1: a search_full_text that finds no unexpired 'search_data' entry      *)
(* fetches from the repositories (at least one list request, a notes and a *)
(* reminders request per contact), inserts the {index, contacts} it built  *)
(* under the fixed key and returns from_cache = false; a search that       *)
(* starts while an entry is present and unexpired returns                  *)
(* from_cache = true, makes no repository request, and its results are     *)
(* results of searching exactly the stored index and snapshot.             *)
(***************************************************************************)
C1_MissBuildsHitReuses ==
    LastIsSearch =>
        /\ last.from_cache = last.ghost.entry_fresh
        /\ SEARCH_KEY \in DOMAIN searchCache
        /\ searchCache[SEARCH_KEY].value = last.used
        /\ last.results \in search(last.used.index, last.used.contacts,
                                   last.input.query, 10, 50)
        /\ last.index_size = Len(last.used.index)
        /\ last.from_cache =>
              /\ last.requests = << >>
              /\ last.issued = 0
              /\ last.at - searchCache[SEARCH_KEY].inserted_at < Ttl
        /\ ~last.from_cache =>
              /\ Len(last.requests) >= 1
              /\ last.issued = 2 * Len(last.used.contacts)
              /\ searchCache[SEARCH_KEY].inserted_at = last.at

\* A search was answered from the entry an earlier search had built.
C1_Witness ==
    /\ LastIsSearch
    /\ last.from_cache
    /\ last.index_size > 0
    /\ last.results # << >>

(***************************************************************************)
(* C2: the first search_full_text that starts after an invalidation of the *)
(* search cache has returned reports from_cache = false (and so works on   *)
(* data it fetched itself, after the invalidation), also when other        *)
(* searches are in flight while the cache is invalidated.                  *)
(***************************************************************************)
C2_FirstSearchAfterInvalidateRebuilds ==
    (LastIsSearch /\ last.ghost.after_inval) => ~last.from_cache

(***************************************************************************)
(* C3: get(k) returns Some(v) only if k's current entry holds v and        *)
(* strictly less than ttl has elapsed since it was inserted; once the      *)
(* entry's age is >= ttl, get(k) returns None and contains_key(k) false.   *)
(* tcLast is the operation just executed, so tc and now are the map and    *)
(* the clock that operation saw.                                           *)
(***************************************************************************)
C3_GetNeverStale ==
    /\ (tcLast.op = "get" /\ tcLast.result.some) =>
          /\ tcLast.key \in DOMAIN tc
          /\ tc[tcLast.key].value = tcLast.result.val
          /\ now - tc[tcLast.key].inserted_at < Ttl
    /\ (/\ tcLast.op = "get"
        /\ tcLast.key \in DOMAIN tc
        /\ now - tc[tcLast.key].inserted_at >= Ttl) => tcLast.result = None
    /\ (/\ tcLast.op = "contains_key"
        /\ tcLast.key \in DOMAIN tc
        /\ now - tc[tcLast.key].inserted_at >= Ttl) => tcLast.result = FALSE

\* A get of a key whose entry is still stored but has reached its ttl.
C3_Witness ==
    /\ tcLast.op = "get"
    /\ tcLast.key \in DOMAIN tc
    /\ now - tc[tcLast.key].inserted_at >= Ttl
    /\ tcLast.result = None

(***************************************************************************)
(* C4: when two searches have both found no entry before either inserted,  *)
(* each makes its own complete fetch (list, and notes and reminders of     *)
(* every contact), returns from_cache = false with results of searching    *)
(* what it built itself, and the entry in the cache is the one of the      *)
(* search that inserted last.  A search has raced another if another build *)
(* inserted while it was under way (`overtaken`), or if another build is   *)
(* still under way when it has returned.                                   *)
(***************************************************************************)
C4_Raced ==
    \/ last.ghost.overtaken
    \/ \E q \in Procs \ {last.proc} : loc[q].op = "search"

C4_ConcurrentMissesBothBuild ==
    (LastIsSearch /\ ~last.ghost.entry_fresh /\ C4_Raced) =>
        /\ ~last.from_cache
        /\ Len(last.requests) >= 1
        /\ last.issued = 2 * Len(last.used.contacts)
        /\ last.results \in search(last.used.index, last.used.contacts,
                                   last.input.query, 10, 50)
        /\ SEARCH_KEY \in DOMAIN searchCache
        /\ searchCache[SEARCH_KEY] = [value |-> last.used, inserted_at |-> last.at]

\* The second of two racing builds has inserted over the first one's entry.
C4_Witness ==
    /\ LastIsSearch
    /\ ~last.from_cache
    /\ last.ghost.overtaken
    /\ \A q \in Procs : pc[q] = "idle"

(***************************************************************************)
(* C5: when a contact-list page request of a build fails, search_full_text *)
(* returns that error, has issued no notes or reminders request, and       *)
(* leaves the cache map as it was.  The step in which caller p's page      *)
(* request fails is the one that spends a failure and changes p's call.    *)
(***************************************************************************)
C5_PageFails(p) ==
    /\ pc[p] = "search_list"
    /\ fails' # fails
    /\ (pc'[p] # pc[p] \/ loc'[p] # loc[p])

C5_ListFailureAborts ==
    [][\A p \in Procs :
         C5_PageFails(p) =>
            /\ pc'[p] = "idle"
            /\ last' = [proc |-> p, op |-> "search_full_text", ok |-> FALSE,
                        error |-> "ApiError"]
            /\ loc[p].issued = 0
            /\ searchCache' = searchCache]_vars

\* A build has failed on its list request while the map held an (expired)
\* entry, which is still there.
C5_Witness ==
    /\ last.op = "search_full_text"
    /\ ~last.ok
    /\ last.error = "ApiError"
    /\ SEARCH_KEY \in DOMAIN searchCache

(***************************************************************************)
(* C6: when notes or reminders requests fail during a build, the search    *)
(* still returns Ok; the index holds, for every contact, its name, and its *)
(* notes exactly if its notes request did not fail, and its reminders      *)
(* exactly if its reminders request did not fail, and nothing else; and    *)
(* that index is the one stored in the cache.                              *)
(***************************************************************************)
C6_Indexed(index, id, field, item_id) ==
    \E d \in 1..Len(index) :
        /\ index[d].contact_id = id
        /\ index[d].field_type = field
        /\ index[d].item_id = Some(item_id)

C6_Fetched(db, failed, which) ==
    UNION {{db[id][i].id : i \in 1..Len(db[id])} :
             id \in {x \in DOMAIN db : <<x, which>> \notin failed}}

C6_IndexDegrades ==
    (LastIsSearch /\ ~last.from_cache) =>
        /\ SEARCH_KEY \in DOMAIN searchCache
        /\ searchCache[SEARCH_KEY].value = last.used
        /\ last.used.contacts = contactsDb
        /\ \A c \in 1..Len(contactsDb) :
            /\ Cardinality({d \in 1..Len(last.used.index) :
                              /\ last.used.index[d].contact_id = contactsDb[c].id
                              /\ last.used.index[d].field_type = "Name"
                              /\ last.used.index[d].content = contactsDb[c].name}) = 1
            /\ \A n \in 1..Len(notesDb[contactsDb[c].id]) :
                  C6_Indexed(last.used.index, contactsDb[c].id, "Note",
                             notesDb[contactsDb[c].id][n].id)
                    <=> <<contactsDb[c].id, "notes">> \notin last.failed
            /\ \A r \in 1..Len(remindersDb[contactsDb[c].id]) :
                  C6_Indexed(last.used.index, contactsDb[c].id, "Reminder",
                             remindersDb[contactsDb[c].id][r].id)
                    <=> <<contactsDb[c].id, "reminders">> \notin last.failed
        /\ Len(last.used.index) =
              Len(contactsDb)
                + Cardinality(C6_Fetched(notesDb, last.failed, "notes"))
                + Cardinality(C6_Fetched(remindersDb, last.failed, "reminders"))

C6_SubFetchFailureDegrades ==
    /\ []C6_IndexDegrades
    /\ [][\A p \in Procs :
            /\ (pc[p] = "search_fan" /\ pc'[p] # pc[p]) => pc'[p] = "search_insert"
            /\ (pc[p] = "search_insert" /\ pc'[p] # pc[p]) =>
                  /\ pc'[p] = "idle"
                  /\ last'.proc = p
                  /\ last'.op = "search_full_text"
                  /\ last'.ok]_vars

\* A build in which the notes request of one contact and the reminders
\* request of the other failed has returned Ok.
C6_Witness ==
    /\ LastIsSearch
    /\ ~last.from_cache
    /\ last.failed = {<<Id1, "notes">>, <<Id2, "reminders">>}

(***************************************************************************)
(* C7: after create_note or create_reminder has succeeded the search       *)
(* entry has been invalidated, so the first search that starts afterwards  *)
(* rebuilds the index: it reports from_cache = false.                      *)
(***************************************************************************)
C7_CreateInvalidatesSearch ==
    (LastIsSearch /\ last.ghost.after_create) => ~last.from_cache

(***************************************************************************)
(* C8: enrich_contact removes the discovery entry and the search entry     *)
(* after the repository update has succeeded and before it returns Ok:     *)
(* when it has returned Ok neither map holds its key; the steps of the     *)
(* call up to and including the reply to the update leave both maps        *)
(* unchanged; a reply to the update that lets the call go on has stored    *)
(* the merged contact; and a call that fails in validation, in the get or  *)
(* in the update returns an error and leaves both maps unchanged.          *)
(***************************************************************************)
C8_BothRemoved ==
    (last.op = "enrich_contact" /\ last.ok) =>
        /\ SEARCH_KEY \notin DOMAIN searchCache
        /\ DISCOVERY_KEY \notin DOMAIN discCache

C8_Rejected(p) ==
    /\ ops' # ops
    /\ pc' = pc
    /\ last'.proc = p
    /\ last'.op = "enrich_contact"

C8_StepOf(p) ==
    /\ C8_Rejected(p) =>
          /\ ~last'.ok
          /\ searchCache' = searchCache
          /\ discCache' = discCache
    /\ (pc[p] \in {"enrich_get", "enrich_update"} /\ pc'[p] # pc[p]) =>
          /\ searchCache' = searchCache
          /\ discCache' = discCache
          /\ pc'[p] = "idle" =>
                /\ last'.proc = p
                /\ last'.op = "enrich_contact"
                /\ ~last'.ok
          /\ pc'[p] = "enrich_invalidate_discovery" =>
                RepoGet(contactsDb', loc[p].params.contact_id) = Some(loc[p].contact)
    /\ (pc[p] = "enrich_invalidate_search" /\ pc'[p] # pc[p]) =>
          /\ last'.proc = p
          /\ last'.op = "enrich_contact"
          /\ last'.ok

C8_EnrichInvalidatesAfterUpdate ==
    /\ []C8_BothRemoved
    /\ [][\A p \in Procs : C8_StepOf(p)]_vars

\* An enrich_contact has returned Ok after removing an entry from each map.
C8_Witness ==
    /\ last.op = "enrich_contact"
    /\ last.ok
    /\ last.found = {SEARCH_KEY, DISCOVERY_KEY}

(***************************************************************************)
(* C9: during a build at most 20 contacts are in flight; every contact of  *)
(* the snapshot is in exactly one stage (not pulled, in flight, yielded),  *)
(* is pulled once and yields once; a contact's notes and reminders         *)
(* requests are issued together, and it yields when both have completed,   *)
(* not before.                                                             *)
(***************************************************************************)
C9_InFlight ==
    fan.in_flight
        + (IF fan.t.pulls > fan.t.yields THEN fan.t.pulls - fan.t.yields ELSE 0)

C9_BoundedFanout ==
    /\ C9_InFlight <= 20
    /\ fan.yielded + fan.t.yields + C9_InFlight + (fan.total - fan.next + 1) = fan.total
    /\ fan.t.pulls <= 1
    /\ fan.t.yields <= fan.t.pulls
    /\ (fan.t.pulls = 1) <=> (fan.t.notes # "none")
    /\ (fan.t.notes = "none") <=> (fan.t.reminders = "none")
    /\ (fan.t.yields = 1) <=> (fan.t.notes = "done" /\ fan.t.reminders = "done")
    /\ fan.stage = "collected" =>
          /\ fan.yielded + fan.t.yields = fan.total
          /\ fan.total > 0 => fan.t.yields = 1

\* A future has yielded and the stream has refilled the window to 20 while
\* it still holds a contact; the tracked contact is in flight with its notes
\* request complete and its reminders request pending.
C9_Witness ==
    /\ C9_InFlight = 20
    /\ fan.yielded >= 1
    /\ fan.next <= fan.total
    /\ fan.t.pulls = 1
    /\ fan.t.yields = 0
    /\ fan.t.notes = "done"
    /\ fan.t.reminders = "pending"

(***************************************************************************)
(* C10: the bulk contact fetch asks for pages with limit 100 at offsets    *)
(* 0, 100, 200, ..., the next one only after a page of exactly 100; it     *)
(* stops at the first page of fewer than 100 and returns the pages         *)
(* concatenated in request order, so against a remote of N contacts it     *)
(* makes N \div 100 + 1 requests and returns the N contacts.               *)
(***************************************************************************)
C10_Pages(requests) ==
    \A i \in 1..Len(requests) :
        /\ requests[i].limit = 100
        /\ requests[i].offset = 100 * (i - 1)
        /\ i < Len(requests) => requests[i].count = 100

C10_Fetching(requests, all_contacts) ==
    /\ C10_Pages(requests)
    /\ \A i \in 1..Len(requests) : requests[i].count = 100
    /\ all_contacts = SubSeq(contactsDb, 1, 100 * Len(requests))

C10_Fetched(requests, contacts) ==
    /\ C10_Pages(requests)
    /\ Len(requests) = Len(contactsDb) \div 100 + 1
    /\ requests[Len(requests)].count < 100
    /\ contacts = contactsDb

C10_PagedFetch ==
    /\ \A p \in Procs :
        /\ pc[p] \in {"search_list", "find_list"} =>
              C10_Fetching(loc[p].requests, loc[p].all_contacts)
        /\ pc[p] = "search_fan" => C10_Fetched(loc[p].requests, loc[p].contacts)
        /\ pc[p] = "search_insert" =>
              C10_Fetched(loc[p].requests, loc[p].search_cache.contacts)
    /\ (last.op = "find_contact" /\ last.ok /\ last.requests # << >>) =>
          C10_Fetched(last.requests, last.contacts)

\* A fetch against a remote of exactly two full pages has ended on a third,
\* empty page.
C10_Witness ==
    /\ last.op = "find_contact"
    /\ last.ok
    /\ Len(last.requests) = 3
    /\ last.requests[3].count = 0
    /\ Len(last.contacts) = 200

(***************************************************************************)
(* What the claims about find_matches read off the state: the query, the   *)
(* contact list and the Vec returned, and which fields of the query        *)
(* normalize equal to a field of a contact.                                *)
(***************************************************************************)
FindMatchesReturned == call.fn = "find_matches" /\ call.stage = "returned"

EmailsOf(c) ==
    (IF c.email.some THEN {c.email.val} ELSE {}) \cup {c.emails[i] : i \in 1..Len(c.emails)}

PhonesOf(c) ==
    (IF c.phone.some THEN {c.phone.val} ELSE {}) \cup {c.phones[i] : i \in 1..Len(c.phones)}

UrlsOf(c) == {c.social_profiles[i].url : i \in 1..Len(c.social_profiles)}

EmailHit(q, c) ==
    q.email.some /\ \E e \in EmailsOf(c) : normalize_email(e) = normalize_email(q.email.val)

PhoneHit(q, c) ==
    q.phone.some /\ \E e \in PhonesOf(c) : normalize_phone(e) = normalize_phone(q.phone.val)

SocialHit(q, c) ==
    q.social_url.some
        /\ \E e \in UrlsOf(c) : normalize_url(e) = normalize_url(q.social_url.val)

ExactHit(q, c) == EmailHit(q, c) \/ PhoneHit(q, c) \/ SocialHit(q, c)

Listed(contacts) == {contacts[i] : i \in 1..Len(contacts)}

\* The positions of contact c in the Vec returned.
ResultsFor(results, c) == {i \in 1..Len(results) : results[i].contact = c}

\* c is reported with confidence 100 and the match type given.
ReportedExact(results, c, match_type) ==
    \E i \in ResultsFor(results, c) :
        results[i].confidence = 100 /\ results[i].match_type = match_type

\* Fewer than max_results other contacts of the list match exactly.
RoomFor(a, c) ==
    Cardinality({d \in Listed(a.contacts) \ {c} : ExactHit(a.query, d)}) < a.max_results

NoFuzzyBeforeExact(results) ==
    \A i, j \in 1..Len(results) :
        (i < j /\ results[j].match_type # "FuzzyName") => results[i].match_type # "FuzzyName"

(***************************************************************************)
(* C11, as stated: a contact one of whose emails (resp. phones, profile    *)
(* URLs) normalizes equal to the query's is reported with confidence 100   *)
(* and type ExactEmail (resp. ExactPhone, ExactSocial) whenever fewer than *)
(* max_results other contacts match exactly, and no FuzzyName result comes *)
(* before an exact one.                                                    *)
(***************************************************************************)
C11_ExactTypePerField ==
    FindMatchesReturned =>
        /\ \A c \in Listed(call.args.contacts) :
              RoomFor(call.args, c) =>
                /\ EmailHit(call.args.query, c) =>
                      ReportedExact(call.result, c, "ExactEmail")
                /\ PhoneHit(call.args.query, c) =>
                      ReportedExact(call.result, c, "ExactPhone")
                /\ SocialHit(call.args.query, c) =>
                      ReportedExact(call.result, c, "ExactSocial")
        /\ NoFuzzyBeforeExact(call.result)

\* The first of the rules email, phone, social URL that hits.
FirstExactRule(q, c) ==
    IF EmailHit(q, c) THEN "ExactEmail"
    ELSE IF PhoneHit(q, c) THEN "ExactPhone"
    ELSE "ExactSocial"

(***************************************************************************)
(* C11, amended: a contact one of whose emails, phones or profile URLs     *)
(* normalizes equal to the query's is reported with confidence 100 and the *)
(* type of the first of its fields, in the order email, phone, social URL, *)
(* that matches, whenever fewer than max_results other contacts match      *)
(* exactly; and no FuzzyName result comes before an exact one.             *)
(***************************************************************************)
C11_ExactMatchSupremacy ==
    FindMatchesReturned =>
        /\ \A c \in Listed(call.args.contacts) :
              (ExactHit(call.args.query, c) /\ RoomFor(call.args, c)) =>
                  ReportedExact(call.result, c, FirstExactRule(call.args.query, c))
        /\ NoFuzzyBeforeExact(call.result)

\* A contact matched by its phone only is reported as ExactPhone ahead of a
\* fuzzy name match, and a contact whose email and phone both match as
\* ExactEmail.
C11_Witness ==
    /\ FindMatchesReturned
    /\ Len(call.result) = 3
    /\ \E i, j, k \in 1..3 :
        /\ i < k /\ j < k
        /\ call.result[i].match_type = "ExactPhone"
        /\ call.result[i].confidence = 100
        /\ ~EmailHit(call.args.query, call.result[i].contact)
        /\ call.result[j].match_type = "ExactEmail"
        /\ PhoneHit(call.args.query, call.result[j].contact)
        /\ call.result[k].match_type = "FuzzyName"

\* Whether the fuzzy name rule hits: the name's score is above 0 and, with
\* the company boost, at least min_confidence.
CompanyHit(q, c) ==
    /\ q.company.some
    /\ c.company.some
    /\ calculate_fuzzy_score(normalize_name(q.company.val), normalize_name(c.company.val)) > 50

NameScore(q, c) ==
    IF q.name.some
    THEN calculate_fuzzy_score(normalize_name(q.name.val), normalize_name(c.name))
    ELSE 0

FuzzyHit(a, c) ==
    /\ NameScore(a.query, c) > 0
    /\ (IF CompanyHit(a.query, c) THEN Min(NameScore(a.query, c) + 15, 95)
        ELSE NameScore(a.query, c)) >= a.min_confidence

\* The first rule that hits for contact c, in the fixed order.
FirstRule(a, c) ==
    IF EmailHit(a.query, c) THEN "ExactEmail"
    ELSE IF PhoneHit(a.query, c) THEN "ExactPhone"
    ELSE IF SocialHit(a.query, c) THEN "ExactSocial"
    ELSE IF FuzzyHit(a, c) THEN "FuzzyName"
    ELSE "none"

(***************************************************************************)
(* C12: find_matches returns at most one MatchResult per contact of the    *)
(* list, each for a contact of the list and of the type of the first rule  *)
(* that hits for it in the order email, phone, social URL, fuzzy name; a   *)
(* FuzzyName result is returned only for a contact no queried exact field  *)
(* matches; and when nothing is truncated every contact some rule hits for *)
(* has its result.                                                         *)
(***************************************************************************)
C12_FirstRuleWins ==
    FindMatchesReturned =>
        /\ \A c \in Listed(call.args.contacts) :
              /\ Cardinality(ResultsFor(call.result, c)) <= 1
              /\ (FirstRule(call.args, c) # "none"
                    /\ call.args.max_results >= Len(call.args.contacts))
                  => ResultsFor(call.result, c) # {}
        /\ \A i \in 1..Len(call.result) :
              /\ call.result[i].contact \in Listed(call.args.contacts)
              /\ call.result[i].match_type = FirstRule(call.args, call.result[i].contact)
              /\ call.result[i].match_type = "FuzzyName" =>
                    ~ExactHit(call.args.query, call.result[i].contact)

\* The query names an email, a phone, a URL and a name; one contact of the
\* list is matched by all four and reported once, as ExactEmail, one by
\* phone and name and reported as ExactPhone, one by name only.
C12_Witness ==
    /\ FindMatchesReturned
    /\ call.args.query.name.some
    /\ call.args.query.social_url.some
    /\ Len(call.result) = 3
    /\ \E i, j, k \in 1..3 :
        /\ call.result[i].match_type = "ExactEmail"
        /\ PhoneHit(call.args.query, call.result[i].contact)
        /\ SocialHit(call.args.query, call.result[i].contact)
        /\ NameScore(call.args.query, call.result[i].contact) > 0
        /\ call.result[j].match_type = "ExactPhone"
        /\ NameScore(call.args.query, call.result[j].contact) > 0
        /\ call.result[k].match_type = "FuzzyName"

\* Result a is ranked before result b: higher confidence, or the same
\* confidence and the smaller name.
Outranks(a, b) ==
    \/ a.confidence > b.confidence
    \/ a.confidence = b.confidence /\ StrCmp(a.contact.name, b.contact.name) < 0

\* The full ranked list: what find_matches returns when nothing is truncated.
FullRanking(a) == find_matches(a.query, a.contacts, Len(a.contacts), a.min_confidence)

IsPrefixOf(results, full, max_results) ==
    /\ Len(results) = Min(max_results, Len(full))
    /\ results = SubSeq(full, 1, Len(results))
    /\ \A i \in 1..Len(results), j \in (Len(results) + 1)..Len(full) :
          ~Outranks(full[j], results[i])

(***************************************************************************)
(* C13: the Vec find_matches returns has non-increasing confidence, equal  *)
(* confidences in ascending order of contact name, at most max_results     *)
(* entries, and is the first max_results entries of the full ranked list:  *)
(* no omitted match outranks a returned one.                               *)
(***************************************************************************)
C13_SortedAndTruncated ==
    FindMatchesReturned =>
        /\ Len(call.result) <= call.args.max_results
        /\ \A i, j \in 1..Len(call.result) :
              i < j => ~Outranks(call.result[j], call.result[i])
        /\ IsPrefixOf(call.result, FullRanking(call.args), call.args.max_results)

PositionIn(contacts, c) == CHOOSE i \in 1..Len(contacts) : contacts[i] = c

\* Two results of equal confidence are returned in name order, against
\* their order in the contact list, and a third match is cut off.
C13_Witness ==
    /\ FindMatchesReturned
    /\ call.args.max_results = 2
    /\ Len(call.result) = 2
    /\ Len(FullRanking(call.args)) = 3
    /\ call.result[1].confidence = call.result[2].confidence
    /\ StrCmp(call.result[1].contact.name, call.result[2].contact.name) < 0
    /\ PositionIn(call.args.contacts, call.result[1].contact)
          > PositionIn(call.args.contacts, call.result[2].contact)

(***************************************************************************)
(* What the claims about FullTextSearchIndex::search read off the state.   *)
(***************************************************************************)
SearchReturned == call.fn = "search" /\ call.stage = "returned"

\* The position at which a contact was indexed: that of its first document.
IndexedAt(documents, contact) ==
    CHOOSE i \in 1..Len(documents) :
        /\ documents[i].contact_id = contact.id
        /\ \A j \in 1..(i - 1) : documents[j].contact_id # contact.id

\* Every Vec a call with the same arguments can return.
SameCall(a) == search(a.documents, a.contacts, a.query, a.max_results, a.min_confidence)

(***************************************************************************)
(* C14: search returns at most max_results results in non-increasing order *)
(* of confidence, contacts of equal confidence in the order in which they  *)
(* were indexed; so a second call with the same index, snapshot, query,    *)
(* max_results and min_confidence returns the same contacts in the same    *)
(* order.                                                                  *)
(***************************************************************************)
C14_StableAndDeterministic ==
    SearchReturned =>
        /\ Len(call.result) <= call.args.max_results
        /\ \A i, j \in 1..Len(call.result) :
              i < j =>
                /\ call.result[i].confidence >= call.result[j].confidence
                /\ call.result[i].confidence = call.result[j].confidence =>
                      IndexedAt(call.args.documents, call.result[i].contact)
                        < IndexedAt(call.args.documents, call.result[j].contact)
        /\ \A again \in SameCall(call.args) : again = call.result

\* The confidence of one document for the query, as find_match computes it.
DocConfidence(doc, query) ==
    calculate_match_confidence(to_lowercase(query), to_lowercase(doc.content))

\* The documents of a contact whose own confidence is at least min_confidence.
Corroborating(a, contact) ==
    {i \in 1..Len(a.documents) :
        /\ a.documents[i].contact_id = contact.id
        /\ DocConfidence(a.documents[i], a.query).some
        /\ DocConfidence(a.documents[i], a.query).val >= a.min_confidence}

\* The largest confidence among documents ds.
Best(a, ds) ==
    CHOOSE m \in {DocConfidence(a.documents[i], a.query).val : i \in ds} :
        \A i \in ds : DocConfidence(a.documents[i], a.query).val <= m

BoostedBy(m, n) == Min(100, m + Min(15, 5 * (n - 1)))

(***************************************************************************)
(* C15: the confidence of every contact search returns is                  *)
(* min(100, M + min(15, 5 * (n - 1))), n the number of the contact's       *)
(* documents whose own confidence is at least min_confidence and M the     *)
(* largest of those confidences; so it is at most min(100, M + 15), and M  *)
(* when n = 1.                                                             *)
(***************************************************************************)
C15_MultiMatchBoost ==
    SearchReturned =>
        \A i \in 1..Len(call.result) :
            /\ Corroborating(call.args, call.result[i].contact) # {}
            /\ Len(call.result[i].matches)
                  = Cardinality(Corroborating(call.args, call.result[i].contact))
            /\ call.result[i].confidence
                  = BoostedBy(Best(call.args, Corroborating(call.args, call.result[i].contact)),
                              Cardinality(Corroborating(call.args, call.result[i].contact)))
            /\ call.result[i].confidence
                  <= Min(100, Best(call.args, Corroborating(call.args, call.result[i].contact)) + 15)
            /\ Cardinality(Corroborating(call.args, call.result[i].contact)) = 1 =>
                  call.result[i].confidence
                    = Best(call.args, Corroborating(call.args, call.result[i].contact))

\* One contact has five documents of confidence 52 and is returned with 67
\* (the boost stops at 15); one has four of 95 and is returned with 100; one
\* has three documents, two of them at or above min_confidence, and is
\* returned with 100.
C15_Witness ==
    /\ SearchReturned
    /\ call.args.min_confidence = 50
    /\ Len(call.result) = 3
    /\ \E i, j, k \in 1..3 :
        /\ Len(call.result[i].matches) = 5
        /\ call.result[i].confidence = 67
        /\ Len(call.result[j].matches) = 4
        /\ call.result[j].confidence = 100
        /\ Len(call.result[k].matches) = 2
        /\ Cardinality({d \in 1..Len(call.args.documents) :
                           call.args.documents[d].contact_id = call.result[k].contact.id}) = 3
        /\ call.result[k].confidence = 100

Percent == 0..100

(***************************************************************************)
(* C16: every confidence in a MatchResult, a MatchContext or a             *)
(* SearchResult lies in 0..100; calculate_fuzzy_score returns at most 95;  *)
(* a FuzzyName result, boosted by the company or not, is at most 95; and   *)
(* the u8 sums (name score + 15, best confidence + multi-match boost) stay *)
(* within a u8.                                                            *)
(***************************************************************************)
C16_ConfidenceBounds ==
    /\ (call.fn = "calculate_fuzzy_score" /\ call.stage = "returned") =>
          call.result \in 0..95
    /\ (call.fn = "calculate_match_confidence" /\ call.stage = "returned") =>
          (call.result.some => call.result.val \in Percent)
    /\ FindMatchesReturned =>
          \A i \in 1..Len(call.result) :
              /\ call.result[i].confidence \in Percent
              /\ call.result[i].match_type = "FuzzyName" =>
                    /\ call.result[i].confidence <= 95
                    /\ NameScore(call.args.query, call.result[i].contact) + 15 <= 255
    /\ SearchReturned =>
          \A i \in 1..Len(call.result) :
              /\ call.result[i].confidence \in Percent
              /\ \A m \in 1..Len(call.result[i].matches) :
                    call.result[i].matches[m].confidence \in Percent
              /\ Best(call.args, Corroborating(call.args, call.result[i].contact))
                    + Min(15, 5 * (Len(call.result[i].matches) - 1)) <= 255

\* A name that scores 95 is boosted by a matching company and stays at 95.
C16_Witness ==
    /\ FindMatchesReturned
    /\ \E i \in 1..Len(call.result) :
          /\ call.result[i].match_type = "FuzzyName"
          /\ CompanyHit(call.args.query, call.result[i].contact)
          /\ NameScore(call.args.query, call.result[i].contact) = 95
          /\ call.result[i].confidence = 95

\* The thresholds the result counts are compared at: the ends of the scale
\* and the values either side of every score the arguments produce.
Thresholds == {0, 1, 38, 39, 52, 53, 57, 58, 67, 73, 74, 80, 95, 96, 100}

(***************************************************************************)
(* C17: with the index and snapshot (resp. the contact list), the query    *)
(* and max_results fixed, search (resp. find_matches) with a higher        *)
(* min_confidence returns no more results, and with a lower one no fewer.  *)
(***************************************************************************)
C17_ThresholdMonotone ==
    /\ FindMatchesReturned =>
          \A m \in Thresholds :
              /\ m >= call.args.min_confidence =>
                    Len(find_matches(call.args.query, call.args.contacts,
                                     call.args.max_results, m)) <= Len(call.result)
              /\ m <= call.args.min_confidence =>
                    Len(find_matches(call.args.query, call.args.contacts,
                                     call.args.max_results, m)) >= Len(call.result)
    /\ SearchReturned =>
          \A m \in Thresholds :
              \A other \in search(call.args.documents, call.args.contacts, call.args.query,
                                  call.args.max_results, m) :
                  /\ m >= call.args.min_confidence => Len(other) <= Len(call.result)
                  /\ m <= call.args.min_confidence => Len(other) >= Len(call.result)

\* A search at min_confidence 50 returns two contacts where 0 returns three
\* and 96 none.
C17_Witness ==
    /\ SearchReturned
    /\ call.args.min_confidence = 50
    /\ Len(call.result) = 2
    /\ \A other \in search(call.args.documents, call.args.contacts, call.args.query,
                           call.args.max_results, 0) : Len(other) = 3
    /\ \A other \in search(call.args.documents, call.args.contacts, call.args.query,
                           call.args.max_results, 96) : Len(other) = 0

\* C18: every normalizer is idempotent: normalizing a value a normalizer
\* returned gives that value back, for normalize_email, normalize_phone,
\* normalize_url and normalize_name.
NormalizerReturned(fn) == call.fn = fn /\ call.stage = "returned"

C18_NormalizersIdempotent ==
    /\ NormalizerReturned("normalize_email") => normalize_email(call.result) = call.result
    /\ NormalizerReturned("normalize_phone") => normalize_phone(call.result) = call.result
    /\ NormalizerReturned("normalize_url") => normalize_url(call.result) = call.result
    /\ NormalizerReturned("normalize_name") => normalize_name(call.result) = call.result

\* The three normalizers other than normalize_url, on the same inputs.
C18_OthersIdempotent ==
    /\ NormalizerReturned("normalize_email") => normalize_email(call.result) = call.result
    /\ NormalizerReturned("normalize_phone") => normalize_phone(call.result) = call.result
    /\ NormalizerReturned("normalize_name") => normalize_name(call.result) = call.result

\* C19: for every document content and every accepted query (non-blank, at
\* most 500 characters) such that the lower-cased content contains the
\* lower-cased query, the snippet of the match, with a leading and a
\* trailing "..." stripped, contains the content's original-case span at
\* the first matched position.
FindMatchReturned == call.fn = "find_match" /\ call.stage = "returned"

StripEllipses(snippet) ==
    LET front == IF starts_with(snippet, Ellipsis)
                 THEN SubSeq(snippet, Len(Ellipsis) + 1, Len(snippet)) ELSE snippet
    IN  IF Len(front) >= Len(Ellipsis)
           /\ SubSeq(front, Len(front) - Len(Ellipsis) + 1, Len(front)) = Ellipsis
        THEN SubSeq(front, 1, Len(front) - Len(Ellipsis)) ELSE front

\* The original-case span at the first position the lower-cased query is
\* found at.
MatchedSpan(content, query) ==
    LET pos == find(to_lowercase(content), to_lowercase(query)).val
    IN  SubSeq(content, pos + 1, pos + Len(query))

Accepted(query) == validate_search_query(query).ok

SnippetContains(c) ==
    /\ c.result.some
    /\ contains(StripEllipses(c.result.val.snippet), MatchedSpan(c.args.doc.content, c.args.query))

C19_SnippetContainment ==
    (/\ FindMatchReturned
     /\ Accepted(call.args.query)
     /\ contains(to_lowercase(call.args.doc.content), to_lowercase(call.args.query)))
        => SnippetContains(call)

\* The same for queries of at most 94 characters: 3 + CONTEXT_CHARS + 94 is
\* MAX_SNIPPET_LENGTH - 3, the last offset the truncation keeps.
C19_ShortQueryContained ==
    (/\ FindMatchReturned
     /\ Accepted(call.args.query)
     /\ Len(call.args.query) <= MAX_SNIPPET_LENGTH - 6 - CONTEXT_CHARS
     /\ contains(to_lowercase(call.args.doc.content), to_lowercase(call.args.query)))
        => SnippetContains(call)

\* C20: ContactService.search_full_text called with a query that is empty
\* after trimming, or longer than 500 bytes, returns InvalidRequest before
\* any cache lookup or repository call and leaves the search cache as it
\* was; a valid query that matches nothing returns Ok with an empty result
\* list, and the only errors of the call are InvalidRequest and the
\* repository's ApiError.
SearchCalls == {"search_full_text"}

\* The step in which a search_full_text call returns InvalidRequest: a call
\* starts and returns at once.
SearchRejected ==
    /\ ops' # ops
    /\ pc' = pc
    /\ last'.op \in SearchCalls
    /\ ~last'.ok
    /\ last'.error = "InvalidRequest"

\* Empty after trimming, or longer than 500 bytes.
BlankOrTooLong(query) == trim(query) = << >> \/ Len(query) > 500

\* No such query is in a call under way or in a response.
OnlyValidQueriesSearched ==
    /\ \A p \in DOMAIN loc : loc[p].op = "search" => ~BlankOrTooLong(loc[p].input.query)
    /\ (last.op \in SearchCalls /\ last.ok) => ~BlankOrTooLong(last.input.query)

NoDocumentMatches(search_cache, query) ==
    \A i \in 1..Len(search_cache.index) :
        ~find_match(search_cache.index[i], to_lowercase(query)).some

EmptyIsOk ==
    /\ (last.op \in SearchCalls /\ last.ok /\ NoDocumentMatches(last.used, last.input.query))
          => last.results = << >>
    /\ (last.op \in SearchCalls /\ ~last.ok) => last.error \in {"InvalidRequest", "ApiError"}

C20_InvalidQueryRejectedFirst ==
    /\ [](OnlyValidQueriesSearched /\ EmptyIsOk)
    /\ [][SearchRejected =>
            /\ UNCHANGED <<searchCache, remoteVars, loc, fails, hist>>
            /\ last'.message \in {"Search query cannot be empty",
                                  "Search query too long (max 500 characters)"}]_vars
    /\ [][(last' # last /\ last'.op \in SearchCalls /\ ~last'.ok
              /\ last'.error = "ApiError") => fails' < fails]_vars

\* A 501-character query has been rejected while the cache holds an index.
C20_Witness ==
    /\ last = InvalidRequest(last.proc, "search_full_text",
                             "Search query too long (max 500 characters)")
    /\ SEARCH_KEY \in DOMAIN searchCache
    /\ document_count(searchCache[SEARCH_KEY].value.index) > 0

\* A valid query that no document matches has returned Ok and empty.
C20_EmptyReturned ==
    /\ last.op \in SearchCalls
    /\ last.ok
    /\ last.input.query = QueryNone
    /\ document_count(last.used.index) > 0
    /\ last.results = << >>

\* C21: TimedCache.insert(k, v) on an existing key, expired or not,
\* replaces the entry wholesale: get(k) afterwards returns v for a full ttl
\* counted from this insert and nothing after it, len() is what it was, and
\* no other key's entry changes.  tcLast.old is what HashMap::insert
\* replaced.
InsertedOver == tcLast'.op = "insert" /\ tcLast'.key \in DOMAIN tc

C21_InsertReplacesWholesale ==
    [][InsertedOver =>
          /\ tcLast'.old = Some(tc[tcLast'.key])
          /\ tc'[tcLast'.key] = [value |-> tcLast'.value, inserted_at |-> now']
          /\ \A age \in 0..(Ttl - 1) :
                TCGet(tc', tcLast'.key, now' + age, Ttl) = Some(tcLast'.value)
          /\ TCGet(tc', tcLast'.key, now' + Ttl, Ttl) = None
          /\ TCLen(tc') = TCLen(tc)
          /\ DOMAIN tc' = DOMAIN tc
          /\ \A k \in (DOMAIN tc) \ {tcLast'.key} : tc'[k] = tc[k]]_vars

\* An expired entry has been overwritten with another value while a second
\* key, inserted earlier, is stored.
C21_Witness ==
    /\ tcLast.op = "insert"
    /\ tcLast.old.some
    /\ tcLast.old.val.value # tcLast.value
    /\ now - tcLast.old.val.inserted_at >= Ttl
    /\ tc[tcLast.key] = [value |-> tcLast.value, inserted_at |-> now]
    /\ \E k \in (DOMAIN tc) \ {tcLast.key} : tc[k].inserted_at < now

\* C22: len() counts every stored entry, expired or not; get and
\* contains_key (and len) leave the map as it is; cleanup_expired removes
\* exactly the entries whose age is at least the ttl and leaves every other
\* entry with its timestamp; so an entry past its ttl is absent for get
\* while len still counts it, until cleanup_expired drops it.
Age(entry) == now - entry.inserted_at

Stored(c) == {k \in TCKeys : k \in DOMAIN c}

C22_Readers == tcLast'.op \in {"get", "contains_key", "len"} => tc' = tc

C22_Len == tcLast'.op = "len" => tcLast'.result = Cardinality(Stored(tc))

C22_Cleanup ==
    tcLast'.op = "cleanup_expired" =>
        /\ DOMAIN tc' = {k \in Stored(tc) : Age(tc[k]) < Ttl}
        /\ tcLast'.dropped = {k \in Stored(tc) : Age(tc[k]) >= Ttl}
        /\ \A k \in DOMAIN tc' : tc'[k] = tc[k]

C22_ExpiredAbsentButCounted ==
    (/\ tcLast.op \in {"get", "contains_key"}
     /\ tcLast.key \in DOMAIN tc
     /\ Age(tc[tcLast.key]) >= Ttl)
        => /\ tcLast.op = "get" => tcLast.result = None
           /\ tcLast.op = "contains_key" => tcLast.result = FALSE
           /\ TCLen(tc) = Cardinality(Stored(tc))
           /\ TCLen(tc) >= 1

C22_LenCountsCleanupPurges ==
    /\ []C22_ExpiredAbsentButCounted
    /\ [][C22_Readers /\ C22_Len /\ C22_Cleanup]_vars

\* cleanup_expired has dropped an expired entry and kept an older-than-now
\* unexpired one.
C22_Witness ==
    /\ tcLast.op = "cleanup_expired"
    /\ tcLast.dropped # {}
    /\ \E k \in DOMAIN tc : 0 < Age(tc[k]) /\ Age(tc[k]) < Ttl

\* C23: TimedCache operations run concurrently by several threads through
\* clones of one cache behave as if executed one at a time: a writer's body
\* runs alone, so what it stores is its operation applied to the map as it
\* is when the body ends, and a reader's result is read from a map no
\* writer is working on; no insert is lost (with no remove or
\* cleanup_expired, once the threads are done the stored keys are the keys
\* inserted and len is their number); and every operation that has begun
\* completes.
ThreadsIdle == \A t \in ThreadIds : threads.of[t].pc = "idle"

OneAtATime ==
    /\ Cardinality(threads.lock.writers) <= 1
    /\ threads.lock.writers # {} => threads.lock.readers = {}
    /\ \A t \in threads.lock.writers : threads.of[t].snap = tc

NoInsertLost ==
    ~threads.shrunk =>
        /\ threads.inserted \subseteq DOMAIN tc
        /\ ThreadsIdle => (DOMAIN tc = threads.inserted
                            /\ TCLen(tc) = Cardinality(threads.inserted))

EveryOperationCompletes ==
    \A t \in ThreadIds : (threads.of[t].pc # "idle") ~> (threads.of[t].pc = "idle")

MatchConfidenceReturned == call.fn = "calculate_match_confidence" /\ call.stage = "returned"

FuzzyWordScore(query_word, content_word) ==
    LET d == levenshtein_distance(query_word, content_word)
        maxlen == Max(Len(query_word), Len(content_word))
    IN  IF 10 * d <= 4 * maxlen THEN (75 * (maxlen - d)) \div maxlen ELSE 0

BestScore(query_word, content_words) ==
    IF \E i \in 1..Len(content_words) : contains(content_words[i], query_word) THEN 85
    ELSE LET scores == {FuzzyWordScore(query_word, content_words[i]) :
                            i \in 1..Len(content_words)} \cup {0}
         IN  CHOOSE s \in scores : \A other \in scores : other <= s

\* The case the statement is about: both strings non-empty and with words,
\* the query not a substring of the content.
WordCase(a) ==
    /\ a.query # << >>
    /\ a.content # << >>
    /\ ~contains(a.content, a.query)
    /\ split_whitespace(a.query) # << >>
    /\ split_whitespace(a.content) # << >>

QueryWordScores(a) ==
    LET query_words == split_whitespace(a.query)
    IN  [i \in 1..Len(query_words) |-> BestScore(query_words[i], split_whitespace(a.content))]

Contributing(scores) == {i \in 1..Len(scores) : scores[i] > 0}

EnoughWords(scores) == 2 * Cardinality(Contributing(scores)) >= Len(scores)

C24_WordMatchAverage ==
    (MatchConfidenceReturned /\ WordCase(call.args)) =>
        LET scores == QueryWordScores(call.args)
        IN  /\ call.result.some <=> EnoughWords(scores)
            /\ call.result.some =>
                 call.result.val =
                    Min(90, SumSeq(scores) \div Cardinality(Contributing(scores)))

\* The same with the sum divided by W, the number of query words.
C24_AverageOverQueryWords ==
    (MatchConfidenceReturned /\ WordCase(call.args)) =>
        LET scores == QueryWordScores(call.args)
        IN  /\ call.result.some <=> EnoughWords(scores)
            /\ call.result.some =>
                 call.result.val = Min(90, SumSeq(scores) \div Len(scores))

\* Of two query words one is contained in a content word and the other
\* scores nothing: the document matches with half of 85.
C24_Witness ==
    /\ MatchConfidenceReturned
    /\ WordCase(call.args)
    /\ Len(QueryWordScores(call.args)) = 2
    /\ Cardinality(Contributing(QueryWordScores(call.args))) = 1
    /\ call.result = Some(42)

\* C25: search does not fail when matching documents carry a contact_id
\* that is not in the contact list it is given: it returns a Vec, those
\* contacts are left out, and every contact of the list with a qualifying
\* match is reported unless max_results results of at least its confidence
\* are.
InList(a, id) == \E i \in 1..Len(a.contacts) : a.contacts[i].id = id

\* The ids with a qualifying document and no contact in the list.
Orphans(a) ==
    {a.documents[i].contact_id : i \in 1..Len(a.documents)} \ 
        {id \in {a.documents[i].contact_id : i \in 1..Len(a.documents)} :
            InList(a, id) \/ Corroborating(a, [id |-> id]) = {}}

Reported(results, contact) == \E i \in 1..Len(results) : results[i].contact = contact

C25_AbsentContactsOmitted ==
    SearchReturned =>
        /\ \A i \in 1..Len(call.result) :
              /\ InList(call.args, call.result[i].contact.id)
              /\ Corroborating(call.args, call.result[i].contact) # {}
              /\ \A j \in 1..Len(call.result) :
                    call.result[j].contact.id = call.result[i].contact.id => j = i
        /\ \A i \in 1..Len(call.args.contacts) :
              LET contact == call.args.contacts[i]
                  ds == Corroborating(call.args, contact)
              IN  (ds # {} /\ ~Reported(call.result, contact)) =>
                     /\ Len(call.result) = call.args.max_results
                     /\ \A j \in 1..Len(call.result) :
                           call.result[j].confidence
                              >= BoostedBy(Best(call.args, ds), Cardinality(ds))

\* A contact that is not in the list has a qualifying document; the two
\* that are in the list are both reported, with room to spare.
C25_Witness ==
    /\ SearchReturned
    /\ Orphans(call.args) # {}
    /\ Len(call.result) = 2
    /\ call.args.max_results > 2

\* C26: index_contact only appends: one document for the name, one for
\* the primary email if present, one per entry of emails, one for the
\* primary phone if present, one per entry of phones, one for company and
\* one for title if present, one per note whose HTML-stripped content is
\* non-blank and one per reminder whose text is non-blank; the documents
\* already there stay as they are, so a second call duplicates the first
\* call's documents; and an index built from an empty one over the
\* collected results has document_count equal to the sum of these counts.
IndexReturned == call.fn = "index_contact" /\ call.stage \in {"returned", "again"}

IsBlank(s) == \A i \in 1..Len(s) : IsWhitespace(s[i])

One(option) == IF option.some THEN 1 ELSE 0

CountWhere(xs, Test(_)) == Cardinality({i \in 1..Len(xs) : Test(xs[i])})

\* The documents the statement counts, by field type.
ExpectedOf(contact, notes, reminders) ==
    [Name |-> 1,
     Email |-> One(contact.email) + Len(contact.emails),
     Phone |-> One(contact.phone) + Len(contact.phones),
     Company |-> One(contact.company),
     JobTitle |-> One(contact.title),
     Note |-> CountWhere(notes, LAMBDA n : ~IsBlank(strip_html(n.content))),
     Reminder |-> CountWhere(reminders, LAMBDA r : ~IsBlank(r.text))]

ExpectedCount(e) ==
    e.Name + e.Email + e.Phone + e.Company + e.JobTitle + e.Note + e.Reminder

\* `after` is `before` followed by documents of the contact, as many of
\* each field type as expected.
AppendsExpected(before, after, a) ==
    LET e == ExpectedOf(a.contact, a.notes, a.reminders)
        added == SubSeq(after, Len(before) + 1, Len(after))
    IN  /\ Len(after) = Len(before) + ExpectedCount(e)
        /\ SubSeq(after, 1, Len(before)) = before
        /\ \A i \in 1..Len(added) :
              /\ added[i].contact_id = a.contact.id
              /\ added[i].contact_name = a.contact.name
        /\ \A f \in DOMAIN e : CountWhere(added, LAMBDA d : d.field_type = f) = e[f]

C26_IndexContactAppends ==
    /\ (IndexReturned /\ call.stage = "returned") =>
          AppendsExpected(call.args.documents, call.result, call.args)
    /\ (IndexReturned /\ call.stage = "again") =>
          /\ AppendsExpected(call.first, call.result, call.args)
          /\ SubSeq(call.result, Len(call.first) + 1, Len(call.result))
                = SubSeq(call.first, Len(call.args.documents) + 1, Len(call.first))
    /\ (call.fn = "build_index" /\ call.stage = "returned") =>
          document_count(call.result)
             = SumSeq([i \in 1..Len(call.args.results) |->
                          ExpectedCount(ExpectedOf(call.args.results[i].contact,
                                                   call.args.results[i].notes,
                                                   call.args.results[i].reminders))])

\* A contact with every field, two emails, a note with text and a reminder
\* with text has been indexed twice into an index that held a document.
C26_Witness ==
    /\ IndexReturned
    /\ call.stage = "again"
    /\ call.args.documents # << >>
    /\ Len(call.args.contact.emails) = 2
    /\ ExpectedCount(ExpectedOf(call.args.contact, call.args.notes, call.args.reminders)) = 10
    /\ \E i \in 1..Len(call.args.notes) : IsBlank(strip_html(call.args.notes[i].content))
    /\ Len(call.result) = 21

\* In a build, what reached index_contact for a contact: the notes or
\* reminders fetched, or none when the request failed.
FetchedFor(db, id, which) == IF <<id, which>> \in last.failed THEN << >> ELSE db[id]

\* The index a build stored, and the index_size of its response, count the
\* same documents contact by contact; a cached response reports the size
\* of the index it searched.
C26_IndexSizeReported ==
    LastIsSearch =>
        /\ last.index_size = document_count(last.used.index)
        /\ ~last.from_cache =>
              last.index_size
                 = SumSeq([i \in 1..Len(last.used.contacts) |->
                      ExpectedCount(ExpectedOf(
                          last.used.contacts[i],
                          FetchedFor(notesDb, last.used.contacts[i].id, "notes"),
                          FetchedFor(remindersDb, last.used.contacts[i].id, "reminders")))])

\* C27: find_contact reports from_cache = true iff the contact list it
\* used was in the cache, unexpired, when the call began, that is iff the
\* call made no page request; a call that misses the cache reports
\* from_cache = false.
LastIsFind == last.op = "find_contact" /\ last.ok

C27_FromCacheIffCached ==
    LastIsFind => (last.from_cache <=> last.requests = << >>)

\* What the code reports: the cache holds the list when from_cache is read,
\* after get_cached_contacts has filled it.
C27_FromCacheAlways == LastIsFind => last.from_cache

\* C28: in every reachable state the search cache holds at most one entry,
\* under the key "search_data", and the index and the contact snapshot of
\* that entry belong together: every document of the index carries the id
\* of a contact of the snapshot.
SnapshotIds(search_cache) ==
    {search_cache.contacts[i].id : i \in 1..Len(search_cache.contacts)}

C28_OneEntryIndexMatchesSnapshot ==
    /\ DOMAIN searchCache \subseteq {"search_data"}
    /\ \A k \in DOMAIN searchCache :
          \A d \in 1..Len(searchCache[k].value.index) :
              searchCache[k].value.index[d].contact_id
                  \in SnapshotIds(searchCache[k].value)

\* The entry was stored by a build that another build overtook, and holds
\* documents.
C28_Witness ==
    /\ LastIsSearch
    /\ last.ghost.overtaken
    /\ "search_data" \in DOMAIN searchCache
    /\ searchCache["search_data"].value = last.used
    /\ document_count(last.used.index) > 0

\* C29: find_contact holds the discovery write lock from before its cache
\* lookup until it returns, the paged fetch included: at most one caller is
\* in the discovery bulk fetch, that caller holds the lock, and while it
\* fetches no step removes or changes the "all_contacts" entry other than
\* the insert that ends its own fetch; invalidate_cache waits for the lock.
Fetching == {p \in Procs : pc[p] = "find_list"}

OneFetchUnderLock ==
    /\ Cardinality(Fetching) <= 1
    /\ \A p \in Fetching : discLock = p
    /\ \A p \in Procs : pc[p] = "enrich_invalidate_search" => discLock = p

FetchUndisturbed ==
    \A p \in Fetching :
        /\ "all_contacts" \in DOMAIN discCache => "all_contacts" \in DOMAIN discCache'
        /\ discCache' # discCache =>
              /\ pc'[p] = "idle"
              /\ "all_contacts" \in DOMAIN discCache'
              /\ last'.proc = p /\ last'.op = "find_contact" /\ last'.ok
              /\ discCache'["all_contacts"].value = last'.contacts
        /\ pc'[p] = "idle" /\ last'.ok => "all_contacts" \in DOMAIN discCache'

C29_FindHoldsDiscoveryLock == []OneFetchUnderLock /\ [][FetchUndisturbed]_vars

\* A find_contact is in its fetch, holding the lock, while the other
\* caller, after its update, waits in invalidate_cache for the lock.
C29_Witness ==
    \E p \in Procs : \E q \in Procs \ {p} :
        /\ pc[p] = "find_list"
        /\ discLock = p
        /\ pc[q] = "enrich_invalidate_discovery"

\* C30: an index built while notes or reminders requests failed is stored
\* like any other, with the time of the insert.  While that entry is
\* unexpired, no build is started or under way, and a call that starts is
\* either invalidate_cache, which removes the entry, or a search that
\* answers from_cache = true from that very index without any request.
CompleteSize ==
    Len(contactsDb) + Cardinality(C6_Fetched(notesDb, {}, "notes"))
                    + Cardinality(C6_Fetched(remindersDb, {}, "reminders"))

Degraded(search_cache) == document_count(search_cache.index) < CompleteSize

DegradedCached ==
    /\ "search_data" \in DOMAIN searchCache
    /\ Age(searchCache["search_data"]) < Ttl
    /\ Degraded(searchCache["search_data"].value)

DegradedStored ==
    \A p \in Procs :
        (pc[p] = "search_insert" /\ pc'[p] = "idle" /\ loc[p].failed # {}) =>
            /\ last'.op = "search_full_text" /\ last'.ok /\ ~last'.from_cache
            /\ last'.failed = loc[p].failed
            /\ Degraded(last'.used)
            /\ "search_data" \in DOMAIN searchCache'
            /\ searchCache'["search_data"] = [value |-> last'.used, inserted_at |-> now]

DegradedServed ==
    DegradedCached =>
        /\ pc' = pc
        /\ ops' # ops =>
              \/ /\ last'.op = "invalidate_cache"
                 /\ "search_data" \notin DOMAIN searchCache'
              \/ /\ last'.op = "search_full_text" /\ last'.ok
                 /\ last'.at = now
                 /\ last'.from_cache
                 /\ last'.used = searchCache["search_data"].value
                 /\ last'.index_size = document_count(last'.used.index)
                 /\ last'.requests = << >>
                 /\ last'.issued = 0
                 /\ last'.failed = {}
                 /\ searchCache' = searchCache

C30_DegradedIndexServedUntilGone == [][DegradedStored /\ DegradedServed]_vars

\* A search has been answered from the cache out of an index that lacks
\* notes or reminders, at a later time than the build that stored it.
C30_Witness ==
    /\ LastIsSearch
    /\ last.from_cache
    /\ Degraded(last.used)
    /\ "search_data" \in DOMAIN searchCache
    /\ last.at > searchCache["search_data"].inserted_at

\* The retry: a build has started once the degraded entry had expired or
\* had been removed.
C30_Retried ==
    /\ pc["p1"] = "search_list"
    /\ LastIsSearch /\ Degraded(last.used)

====
